---- MODULE Spec2Model ----
(***************************************************************************)
(* Model of the SKU-table text parser of the PO data processor            *)
(* (Applications/po-data-processor/js/converter.js, parseSkuTable).        *)
(*                                                                         *)
(* Lines are strings.  String positions are 0-based offsets as in          *)
(* JavaScript (slice, match.index); line indices are 0-based as well, and  *)
(* -1 is the "not found" sentinel of the source.                           *)
(***************************************************************************)
EXTENDS Integers, Sequences, FiniteSets, TLC

(***************************************************************************)
(* Bounds of the model.                                                    *)
(***************************************************************************)
\* largest number of body blocks that follow the header block of a document
MaxBody == 2

\* largest number of filler lines between the two lines of a split header
MaxGap == 5

\* the number of times the price normaliser is applied to one amount
MaxPasses == 2

\* largest number of files in a batch
MaxFiles == 3

\* the workflows of the browser app that are started, and the seconds that
\* pass on its clock
MaxWorkflows == 2
MaxSeconds == 1

(***************************************************************************)
(* JavaScript string primitives.                                           *)
(***************************************************************************)
\* s.slice(a, b)
Slice(s, a, b) == SubSeq(s, a + 1, b)

\* s.slice(a)
SliceFrom(s, a) == SubSeq(s, a + 1, Len(s))

\* s.charAt(p)
CharAt(s, p) == SubSeq(s, p + 1, p + 1)

CharsOf(s) == { SubSeq(s, k, k) : k \in 1..Len(s) }

LowerLetters == "abcdefghijklmnopqrstuvwxyz"
UpperLetters == "ABCDEFGHIJKLMNOPQRSTUVWXYZ"
DigitChars == "0123456789"

\* the character classes \d, [A-Z], [A-Z] under the i flag, \s, \w
Digit == CharsOf(DigitChars)
UpperAZ == CharsOf(UpperLetters)
LowerAZ == CharsOf(LowerLetters)
Letter == UpperAZ \cup LowerAZ
WS == {" ", "\t"}
WordChar == Letter \cup Digit \cup {"_"}

UpperOf == [c \in LowerAZ |-> LET k == CHOOSE n \in 1..26 : SubSeq(LowerLetters, n, n) = c
                              IN  SubSeq(UpperLetters, k, k)]

LowerOf == [c \in UpperAZ |-> LET k == CHOOSE n \in 1..26 : SubSeq(UpperLetters, n, n) = c
                              IN  SubSeq(LowerLetters, k, k)]

ToUpperChar(c) == IF c \in LowerAZ THEN UpperOf[c] ELSE c

RECURSIVE ToUpperCase(_)
\* s.toUpperCase(), computed by halves
ToUpperCase(s) ==
    IF Len(s) = 0 THEN ""
    ELSE IF Len(s) = 1 THEN ToUpperChar(s)
    ELSE ToUpperCase(Slice(s, 0, Len(s) \div 2)) \o ToUpperCase(SliceFrom(s, Len(s) \div 2))

\* the least and the greatest element of a set of integers, d when it is empty
LeastOr(S, d) == IF S = {} THEN d ELSE CHOOSE p \in S : \A q \in S : p <= q
GreatestOr(S, d) == IF S = {} THEN d ELSE CHOOSE p \in S : \A q \in S : p >= q

\* s.indexOf(sub, from): the least offset p >= from at which sub occurs, or -1
IndexOfFrom(s, sub, from) ==
    LeastOr({ p \in from..(Len(s) - Len(sub)) : Slice(s, p, p + Len(sub)) = sub }, -1)

\* s.includes(sub)
Includes(s, sub) == IndexOfFrom(s, sub, 0) # -1

\* the offsets of the characters of s that are no whitespace
InkAt(s) == { q \in 0..(Len(s) - 1) : CharAt(s, q) \notin WS }

\* s.trimStart() and s.trimEnd()
TrimStart(s) == SliceFrom(s, LeastOr(InkAt(s), Len(s)))

TrimEnd(s) == Slice(s, 0, GreatestOr(InkAt(s), -1) + 1)

\* s.trim()
Trim(s) == TrimEnd(TrimStart(s))

RECURSIVE Join(_, _)
\* parts.join(sep)
Join(parts, sep) ==
    IF Len(parts) = 0 THEN ""
    ELSE IF Len(parts) = 1 THEN parts[1]
    ELSE parts[1] \o sep \o Join(Tail(parts), sep)

DigitVal == [c \in Digit |-> (CHOOSE n \in 1..10 : SubSeq(DigitChars, n, n) = c) - 1]

RECURSIVE ParseDigits(_, _)
ParseDigits(s, acc) ==
    IF Len(s) = 0 THEN acc ELSE ParseDigits(Tail(s), 10 * acc + DigitVal[Head(s)])

\* parseInt(s, 10) of a string that starts with a digit: the value of its
\* leading digit run
ParseInt(s) ==
    ParseDigits(Slice(s, 0, Cardinality({ k \in 1..Len(s) :
                                            \A q \in 0..(k - 1) : CharAt(s, q) \in Digit })), 0)

RECURSIVE NumToString(_)
\* String(n) of a non-negative integer
NumToString(n) ==
    IF n < 10 THEN SubSeq(DigitChars, n + 1, n + 1)
    ELSE NumToString(n \div 10) \o SubSeq(DigitChars, (n % 10) + 1, (n % 10) + 1)

(***************************************************************************)
(* Regular expressions.  A pattern is a sequence of elements; an element   *)
(* is a character class with a greedy quantifier {min,max} (max = -1 for   *)
(* unbounded), or the end anchor $.  Matching backtracks over the          *)
(* quantifiers from the longest repetition down, as the JavaScript engine *)
(* does.                                                                   *)
(***************************************************************************)
Rep(cls, min, max) == [cls |-> cls, min |-> min, max |-> max, lit |-> ""]
One(cls) == << Rep(cls, 1, 1) >>
Plus(cls) == << Rep(cls, 1, -1) >>
Star(cls) == << Rep(cls, 0, -1) >>
Opt(cls) == << Rep(cls, 0, 1) >>
Between(cls, min, max) == << Rep(cls, min, max) >>
EndAnchor == << [cls |-> {}, min |-> -1, max |-> -1, lit |-> ""] >>

\* a literal, case-sensitive: one element per character
Lit(str) == [k \in 1..Len(str) |-> Rep({SubSeq(str, k, k)}, 1, 1)]

\* a literal under the i flag: one element, written in upper case and
\* compared with the upper case of the text
LitI(str) == << [cls |-> {}, min |-> -2, max |-> -2, lit |-> str] >>

NoMatch == [ok |-> FALSE, index |-> -1, ends |-> << >>]

\* number of consecutive characters of cls in s from offset p, at most max
\* (max = -1: no limit)
RunLen(s, p, cls, max) ==
    Cardinality({ q \in p..((IF max = -1 \/ p + max > Len(s) THEN Len(s) ELSE p + max) - 1) :
                    \A r \in p..q : CharAt(s, r) \in cls })

\* the most characters that element e takes at offset p, -1 when an anchor
\* or a literal does not fit there
Take(e, s, p) ==
    IF e.min = -1 THEN (IF p = Len(s) THEN 0 ELSE -1)
    ELSE IF e.min = -2
         THEN IF /\ p + Len(e.lit) <= Len(s)
                 /\ ToUpperCase(Slice(s, p, p + Len(e.lit))) = e.lit
              THEN Len(e.lit) ELSE -1
    ELSE RunLen(s, p, e.cls, e.max)

RECURSIVE MatchFrom(_, _, _, _)
RECURSIVE TryRep(_, _, _, _, _)
RECURSIVE Backtrack(_, _, _, _, _, _)
\* match elements k.. of pat against s at offset p: ends[j] is the offset
\* after element k + j - 1
MatchFrom(pat, k, s, p) ==
    IF k > Len(pat) THEN [ok |-> TRUE, index |-> p, ends |-> << >>]
    ELSE TryRep(pat, k, s, p, Take(pat[k], s, p))

\* element k takes n characters, or fewer when the rest does not match then
TryRep(pat, k, s, p, n) ==
    IF n < 0 \/ n < pat[k].min THEN NoMatch
    ELSE Backtrack(pat, k, s, p, n, MatchFrom(pat, k + 1, s, p + n))

\* r is the match of the rest after element k took n characters
Backtrack(pat, k, s, p, n, r) ==
    IF r.ok THEN [ok |-> TRUE, index |-> p, ends |-> <<p + n>> \o r.ends]
    ELSE IF pat[k].min < 0 THEN NoMatch
    ELSE TryRep(pat, k, s, p, n - 1)

\* a pattern anchored with ^
MatchAt(pat, s, p) == MatchFrom(pat, 1, s, p)
MatchStart(pat, s) == MatchFrom(pat, 1, s, 0)

\* the match at the least offset of hits
MatchAtLeast(pat, s, hits) ==
    IF hits = {} THEN NoMatch ELSE MatchFrom(pat, 1, s, LeastOr(hits, -1))

\* an unanchored pattern: the leftmost match at an offset >= p
SearchFrom(pat, s, p) == MatchAtLeast(pat, s, { q \in p..Len(s) : MatchFrom(pat, 1, s, q).ok })

Search(pat, s) == SearchFrom(pat, s, 0)

\* offset after the whole match
MatchEnd(r) == IF Len(r.ends) = 0 THEN r.index ELSE r.ends[Len(r.ends)]

RECURSIVE MatchAllFrom(_, _, _)
RECURSIVE MatchAllNext(_, _, _)
\* s.match(/pat/g): the successive non-overlapping matches, left to right
\* (no pattern of the parser matches the empty string)
MatchAllFrom(pat, s, p) == MatchAllNext(pat, s, SearchFrom(pat, s, p))

\* r is the next match
MatchAllNext(pat, s, r) ==
    IF ~r.ok THEN << >> ELSE << r >> \o MatchAllFrom(pat, s, MatchEnd(r))

MatchAll(pat, s) == MatchAllFrom(pat, s, 0)

\* the text of a match
MatchText(s, r) == Slice(s, r.index, MatchEnd(r))

RECURSIVE KeepDigits(_)
\* s.replace(/\D/g, ''), computed by halves
KeepDigits(s) ==
    IF Len(s) = 0 THEN ""
    ELSE IF Len(s) = 1 THEN (IF s \in Digit THEN s ELSE "")
    ELSE KeepDigits(Slice(s, 0, Len(s) \div 2)) \o KeepDigits(SliceFrom(s, Len(s) \div 2))

RECURSIVE CollapseRange(_, _, _)
\* the image of s[a..b) under s.replace(/\s+/g, ' '): a whitespace character
\* becomes a space when it starts its run and nothing otherwise
CollapseRange(s, a, b) ==
    IF a >= b THEN ""
    ELSE IF b = a + 1
         THEN IF CharAt(s, a) \notin WS THEN CharAt(s, a)
              ELSE IF a = 0 \/ CharAt(s, a - 1) \notin WS THEN " "
              ELSE ""
    ELSE CollapseRange(s, a, (a + b) \div 2) \o CollapseRange(s, (a + b) \div 2, b)

\* s.replace(/\s+/g, ' ')
CollapseWs(s) == CollapseRange(s, 0, Len(s))

\* the offset of the first whitespace character of s at or after p, Len(s)
\* when there is none
GapAfter(s, p) == LeastOr({ q \in p..(Len(s) - 1) : CharAt(s, q) \in WS }, Len(s))

\* s.split(/\s+/)[0] || '': the text before the first whitespace run
FirstToken(s) == Slice(s, 0, GapAfter(s, 0))

RECURSIVE SplitWs(_)
\* s.split(/\s+/).filter(Boolean): the whitespace-separated tokens
SplitWs(s) ==
    IF InkAt(s) = {} THEN << >>
    ELSE << FirstToken(TrimStart(s)) >> \o SplitWs(SliceFrom(s, GapAfter(s, LeastOr(InkAt(s), 0))))

\* s.replace(sub, rep) with a string pattern: the first occurrence only
ReplaceFirst(s, sub, rep) ==
    IF ~Includes(s, sub) THEN s
    ELSE Slice(s, 0, IndexOfFrom(s, sub, 0)) \o rep
             \o SliceFrom(s, IndexOfFrom(s, sub, 0) + Len(sub))

\* s.replace(/^[\.\-\s]+/, '')
StripLeadingPunct(s) == SliceFrom(s, RunLen(s, 0, {".", "-"} \cup WS, -1))

\* p.split('.')
RECURSIVE SplitDot(_)
SplitDot(p) ==
    IF ~Includes(p, ".") THEN << p >>
    ELSE << Slice(p, 0, IndexOfFrom(p, ".", 0)) >>
             \o SplitDot(SliceFrom(p, IndexOfFrom(p, ".", 0) + 1))

(***************************************************************************)
(* Line items.  A key that an item literal of the source does not set is   *)
(* Undefined.  Strategy 1 stores its quantities as numbers (parseInt); a   *)
(* number is represented by its decimal string (String(n)), which is how   *)
(* it prints and compares.                                                 *)
(***************************************************************************)
Undefined == "<undefined>"

\* the 0-based line lines[k]
LineAt(ls, k) == ls[k + 1]

\* || on a string: the left operand unless it is empty or undefined
OrElse(a, b) == IF a = "" \/ a = Undefined THEN b ELSE a

(***************************************************************************)
(* Header locator (converter.js 270-284).                                  *)
(***************************************************************************)
HeaderWindowSize == 6

\* a variant of WindowLines whose window starts on the line after line k,
\* against which property C5 is tested
WindowLinesAfter(ls, k) ==
    ToUpperCase(Join(SubSeq(ls, k + 2,
                            IF k + 1 + HeaderWindowSize < Len(ls)
                            THEN k + 1 + HeaderWindowSize ELSE Len(ls)), " "))

\* lines.slice(i, i + 6).join(' ').toUpperCase()
WindowLines(ls, k) ==
    ToUpperCase(Join(SubSeq(ls, k + 1,
                            IF k + HeaderWindowSize < Len(ls)
                            THEN k + HeaderWindowSize ELSE Len(ls)), " "))

IsHeaderAt(ls, k) ==
    /\ Includes(ToUpperCase(LineAt(ls, k)), "SKU")
    /\ Includes(WindowLines(ls, k), "MFG")
    /\ Includes(WindowLines(ls, k), "STYLE")

\* a variant of FindHeaderIdx that takes the first line with SKU in it and
\* looks at no window, against which property C4 is tested
FirstSkuMention(ls) ==
    LeastOr({ k \in 0..(Len(ls) - 1) : Includes(ToUpperCase(LineAt(ls, k)), "SKU") }, -1)

\* the loop of lines 271-280: the first index that qualifies, else -1
FindHeaderIdx(ls) == LeastOr({ k \in 0..(Len(ls) - 1) : IsHeaderAt(ls, k) }, -1)

(***************************************************************************)
(* Strategy 1: stacked fields (converter.js 286-388).                      *)
(***************************************************************************)
\* /^\d{8,9}$/
ReBareSku == Between(Digit, 8, 9) \o EndAnchor
IsBareSku(text) == MatchStart(ReBareSku, text).ok

\* /^upc:/i
ReUpcPrefix == LitI("UPC:")
\* /^\d{12,14}$/
ReUpcDigits == Between(Digit, 12, 14) \o EndAnchor
isUpc(text) == MatchStart(ReUpcPrefix, text).ok \/ MatchStart(ReUpcDigits, text).ok

\* /^\$[\d,]+\.\d{2}$/
ReStackedPrice == Lit("$") \o Plus(Digit \cup {","}) \o Lit(".") \o Between(Digit, 2, 2) \o EndAnchor
isPrice(text) == MatchStart(ReStackedPrice, text).ok

\* /^\d+$/
ReAllDigits == Plus(Digit) \o EndAnchor
isSmallQty(text) ==
    /\ MatchStart(ReAllDigits, text).ok
    /\ ParseInt(text) >= 1
    /\ ParseInt(text) <= 9999

\* /^[A-Z]$/
RePackLetter == One(UpperAZ) \o EndAnchor
isPackLetter(text) == MatchStart(RePackLetter, text).ok

\* /^number\s+of\s+packs\s*$/i
ReNumberOfPacksOnly ==
    LitI("NUMBER") \o Plus(WS) \o LitI("OF") \o Plus(WS) \o LitI("PACKS") \o Star(WS) \o EndAnchor
\* /^number\s+of\s+packs\s+ordered:/i
ReNumberOfPacksOrdered ==
    LitI("NUMBER") \o Plus(WS) \o LitI("OF") \o Plus(WS) \o LitI("PACKS") \o Plus(WS) \o LitI("ORDERED:")
\* /^total\s+(cost|qty)/i
ReTotalCost == LitI("TOTAL") \o Plus(WS) \o LitI("COST")
ReTotalQty == LitI("TOTAL") \o Plus(WS) \o LitI("QTY")
IsTotalCostQty(text) == MatchStart(ReTotalCost, text).ok \/ MatchStart(ReTotalQty, text).ok
\* /^page/i
RePage == LitI("PAGE")

IsNumberOfPacksOnly(text) == MatchStart(ReNumberOfPacksOnly, text).ok

\* lines.findIndex((line, idx) => idx > headerIdx && /^\d{8,9}$/.test(line))
FirstSkuIdx(ls, hdr) ==
    LeastOr({ k \in (hdr + 1)..(Len(ls) - 1) : IsBareSku(LineAt(ls, k)) }, -1)

\* the item literal of lines 310-321
NewStackedItem(sku) ==
    [SKU |-> sku, MFGStyle |-> "", MFGColor |-> "", SizeDesc |-> "",
     Description |-> "", CostUnit |-> "", Retail |-> "", Comp |-> "",
     PackQty |-> "", Qty |-> "", UPC |-> Undefined]

\* a variant of AssignPositional whose description stage keeps the last
\* line only, against which property C22 is tested
AssignPositionalLast(item, stage, line) ==
    IF stage = 0 THEN [item |-> [item EXCEPT !.MFGStyle = line], stage |-> 1]
    ELSE IF stage = 1 THEN [item |-> [item EXCEPT !.MFGColor = line], stage |-> 2]
    ELSE IF stage = 2 THEN [item |-> [item EXCEPT !.SizeDesc = line], stage |-> 3]
    ELSE [item |-> [item EXCEPT !.Description = line], stage |-> 3]

\* lines 352-369: positional assignment of a line that is no price
AssignPositional(item, stage, line) ==
    IF stage = 0 THEN [item |-> [item EXCEPT !.MFGStyle = line], stage |-> 1]
    ELSE IF stage = 1 THEN [item |-> [item EXCEPT !.MFGColor = line], stage |-> 2]
    ELSE IF stage = 2 THEN [item |-> [item EXCEPT !.SizeDesc = line], stage |-> 3]
    ELSE IF stage = 3
         THEN [item |-> [item EXCEPT !.Description =
                            IF item.Description # "" THEN item.Description \o " " \o line
                            ELSE line],
               stage |-> 3]
    ELSE [item |-> item, stage |-> stage]

\* what the inner loop leaves behind when it stops before line k
StackedOut(k, item, prices, quantities) ==
    [idx |-> k, item |-> item, prices |-> prices, quantities |-> quantities]

RECURSIVE StackedScan(_, _, _, _, _, _)
RECURSIVE StackedLine(_, _, _, _, _, _, _)
\* the inner while loop of lines 328-371
StackedScan(ls, k, item, stage, prices, quantities) ==
    IF k >= Len(ls) THEN StackedOut(k, item, prices, quantities)
    ELSE StackedLine(ls, k, Trim(LineAt(ls, k)), item, stage, prices, quantities)

\* one pass of the inner loop, line is lines[idx].trim()
StackedLine(ls, k, line, item, stage, prices, quantities) ==
    IF line = "" THEN StackedScan(ls, k + 1, item, stage, prices, quantities)
    ELSE IF IsBareSku(line) THEN StackedOut(k, item, prices, quantities)
    ELSE IF MatchStart(ReNumberOfPacksOrdered, line).ok
         THEN StackedOut(k + 1, item, prices, quantities)
    ELSE IF IsNumberOfPacksOnly(line) THEN StackedOut(k, item, prices, quantities)
    ELSE IF IsTotalCostQty(line) THEN StackedOut(k, item, prices, quantities)
    ELSE IF MatchStart(RePage, line).ok THEN StackedOut(k, item, prices, quantities)
    ELSE IF isUpc(line) THEN StackedScan(ls, k + 1, item, stage, prices, quantities)
    ELSE IF isPrice(line)
         THEN StackedScan(ls, k + 1, item, stage, Append(prices, line), quantities)
    ELSE IF Len(prices) > 0 /\ isSmallQty(line)
         THEN StackedScan(ls, k + 1, item, stage, prices,
                          Append(quantities, NumToString(ParseInt(line))))
    ELSE IF Len(prices) = 0
         THEN StackedScan(ls, k + 1, AssignPositional(item, stage, line).item,
                          AssignPositional(item, stage, line).stage, prices, quantities)
    ELSE StackedScan(ls, k + 1, item, stage, prices, quantities)

\* lines 373-375
StackedPrices(item, prices) ==
    [item EXCEPT !.CostUnit = IF Len(prices) >= 1 THEN prices[1] ELSE @,
                 !.Comp = IF Len(prices) >= 2 THEN prices[2] ELSE @,
                 !.Retail = IF Len(prices) >= 3 THEN prices[3] ELSE @]

\* a variant of StackedQty that always takes the first collected quantity,
\* against which property C7 is tested
StackedQtyFirst(quantities) == IF Len(quantities) >= 1 THEN quantities[1] ELSE ""

\* lines 378-384
StackedQty(quantities) ==
    IF Len(quantities) >= 3 THEN quantities[3]
    ELSE IF Len(quantities) >= 2 THEN quantities[2]
    ELSE IF Len(quantities) = 1 THEN quantities[1]
    ELSE ""

\* line 377
StackedPackQty(quantities) == IF Len(quantities) >= 1 THEN quantities[1] ELSE ""

RECURSIVE SkipPackLetters(_, _)
\* lines 299-301
SkipPackLetters(ls, k) ==
    IF k < Len(ls) /\ isPackLetter(LineAt(ls, k)) THEN SkipPackLetters(ls, k + 1) ELSE k

\* lines 373-386: the item of a finished inner loop is pushed
StackedPush(its, sc) ==
    [brk |-> FALSE, idx |-> sc.idx,
     items |-> Append(its, [StackedPrices(sc.item, sc.prices) EXCEPT
                               !.PackQty = StackedPackQty(sc.quantities),
                               !.Qty = StackedQty(sc.quantities)])]

\* lines 303-387: the pass at the line k1 that follows the pack letters
StackedAt(ls, k1, its) ==
    IF k1 >= Len(ls) THEN [brk |-> TRUE, idx |-> k1, items |-> its]
    ELSE IF ~IsBareSku(LineAt(ls, k1)) THEN [brk |-> TRUE, idx |-> k1, items |-> its]
    ELSE IF IsNumberOfPacksOnly(LineAt(ls, k1)) \/ IsTotalCostQty(LineAt(ls, k1))
         THEN [brk |-> TRUE, idx |-> k1, items |-> its]
    ELSE StackedPush(its, StackedScan(ls, k1 + 1, NewStackedItem(LineAt(ls, k1)), 0, << >>, << >>))

\* one pass of the outer while loop of lines 297-387, entered at index k:
\* brk tells that the loop was left, otherwise one item was pushed
StackedBlock(ls, k, its) ==
    IF k >= Len(ls) THEN [brk |-> TRUE, idx |-> k, items |-> its]
    ELSE StackedAt(ls, SkipPackLetters(ls, k), its)

(***************************************************************************)
(* Helpers shared by Strategies 2, 3 and 4.                                *)
(***************************************************************************)
\* the alternatives of colorRegex, in order (converter.js 393, 773, 915)
Colors ==
    << "White", "Black", "Red", "Blue", "Green", "Yellow", "Grey", "Gray",
       "Pink", "Brown", "Purple", "Navy", "Silver", "Gold", "Orange", "Multi",
       "Ivory", "Cream", "Beige", "Khaki", "Tan", "Bone", "Natural", "Royal",
       "Teal", "Turquoise", "Maroon", "Olive", "Charcoal", "Burgundy",
       "No Color" >>

ColorsUpper == [k \in 1..Len(Colors) |-> ToUpperCase(Colors[k])]

\* the offset of colour k in the upper-cased text, -1 when it is absent
ColorAt(up, k) == IndexOfFrom(up, ColorsUpper[k], 0)

\* of the colours found, the one at the least offset; at one offset the
\* first alternative wins
FirstColor(up, found) ==
    CHOOSE c \in found :
        \A d \in found : ColorAt(up, c) < ColorAt(up, d)
                             \/ (ColorAt(up, c) = ColorAt(up, d) /\ c <= d)

ColorHit(text, at, len) == [ok |-> TRUE, index |-> at, text |-> Slice(text, at, at + len)]

ColorPick(text, up, found) ==
    IF found = {} THEN [ok |-> FALSE, index |-> -1, text |-> ""]
    ELSE ColorHit(text, ColorAt(up, FirstColor(up, found)), Len(Colors[FirstColor(up, found)]))

\* text.match(colorRegex): the leftmost occurrence of a colour name, under
\* the i flag
ColorMatch(text) ==
    ColorPick(text, ToUpperCase(text),
              { k \in 1..Len(Colors) : ColorAt(ToUpperCase(text), k) # -1 })

\* /\$[\d,]+\.\d{1,2}/
RePrice == Lit("$") \o Plus(Digit \cup {","}) \o Lit(".") \o Between(Digit, 1, 2)

\* /\$\d/
ReDollarDigit == Lit("$") \o One(Digit)

\* /^[A-Z]?\s*\d{8,9}/ and the groups of /^([A-Z]?\s*)(\d{8,9})(.*)$/
ReSkuLead == Opt(UpperAZ) \o Star(WS) \o Between(Digit, 8, 9)
SkuLead(line) == MatchStart(ReSkuLead, line)
\* groups 2 and 3 of the match m
SkuOf(line, m) == Slice(line, m.ends[2], m.ends[3])
AfterSkuOf(line, m) == SliceFrom(line, m.ends[3])

\* /^\d{8,9}/
ReSkuStart == Between(Digit, 8, 9)

\* a variant of PadCents that pads every amount, against which property C11
\* is tested
PadAlways(p, parts) == p \o "0"

\* the price normaliser: p.split('.'), one fractional digit is padded
\* (converter.js 421-424, 700-706, 868-874, 1101-1107)
PadCents(p, parts) ==
    IF Len(parts) >= 2 /\ Len(parts[2]) = 1
    THEN parts[1] \o "." \o parts[2] \o "0"
    ELSE p

NormalizePrice(p) == PadCents(p, SplitDot(p))

NormalizedPrices(s, matches) == [k \in 1..Len(matches) |-> NormalizePrice(MatchText(s, matches[k]))]

\* prices[k] || ''
PriceOr(prices, k) == IF Len(prices) >= k THEN prices[k] ELSE ""

\* the loop "for (const p of allPrices) idx = text.indexOf(p, lastPriceEndIdx)"
RECURSIVE LastPriceEnd(_, _, _, _)
LastPriceEnd(text, matches, k, last) ==
    IF k > Len(matches) THEN last
    ELSE LastPriceEnd(text, matches, k + 1,
                      IF IndexOfFrom(text, MatchText(text, matches[k]), last) >= 0
                      THEN IndexOfFrom(text, MatchText(text, matches[k]), last)
                               + Len(MatchText(text, matches[k]))
                      ELSE last)

\* /^(\d+X\d+X\d+|\d+X\d+|\.)/i
ReDim3 == Plus(Digit) \o LitI("X") \o Plus(Digit) \o LitI("X") \o Plus(Digit)
ReDim2 == Plus(Digit) \o LitI("X") \o Plus(Digit)
ReDot == Lit(".")
\* the first alternative that matches
FirstOk(a, b, c) == IF a.ok THEN a ELSE IF b.ok THEN b ELSE c

LeftSizeMatch(text) ==
    FirstOk(MatchStart(ReDim3, text), MatchStart(ReDim2, text), MatchStart(ReDot, text))

\* /^([A-Z\s]*SIZE)\s+/i
ReWordSize == Star(Letter \cup WS) \o LitI("SIZE") \o Plus(WS)

\* /^(\d+\.?\d*)\s+/
ReLeftPackQty == Plus(Digit) \o Opt({"."}) \o Star(Digit) \o Plus(WS)

\* Math.round(parseFloat(n)) of a match m of ReLeftPackQty, and whether
\* parseFloat(n) is in 1..99
LeftWhole(working, m) == ParseInt(Slice(working, 0, m.ends[1]))
LeftFrac(working, m) == Slice(working, m.ends[2], m.ends[3])
LeftRounded(working, m) ==
    LeftWhole(working, m)
        + (IF Len(LeftFrac(working, m)) > 0 /\ DigitVal[Head(LeftFrac(working, m))] >= 5
           THEN 1 ELSE 0)
LeftInRange(working, m) ==
    /\ LeftWhole(working, m) >= 1
    /\ \/ LeftWhole(working, m) < 99
       \/ (LeftWhole(working, m) = 99 /\ \A c \in CharsOf(LeftFrac(working, m)) : c = "0")

LeftPackQtyOf(working, m) ==
    IF m.ok /\ LeftInRange(working, m)
    THEN [packQty |-> NumToString(LeftRounded(working, m)),
          working |-> Trim(SliceFrom(working, m.ends[4]))]
    ELSE [packQty |-> "", working |-> working]

\* lines 458-465 and 804-811: a leading number in 1..99 is the pack
\* quantity, String(Math.round(parseFloat(n)))
LeftPackQty(working) == LeftPackQtyOf(working, MatchStart(ReLeftPackQty, working))

StyleColorOf(working, cm) ==
    IF cm.ok
    THEN [style |-> Trim(Slice(working, 0, cm.index)), color |-> cm.text,
          rest |-> SliceFrom(working, cm.index + Len(cm.text))]
    ELSE [style |-> FirstToken(working), color |-> "",
          rest |-> SliceFrom(working, Len(FirstToken(working)))]

\* lines 431-440 and 785-794: style and colour of the left text
SplitStyleColor(working) == StyleColorOf(working, ColorMatch(working))

\* the result of a left-side parse; pq is the outcome of LeftPackQty
LeftRecord(style, color, sizeDesc, pq) ==
    [style |-> style, color |-> color, sizeDesc |-> sizeDesc,
     description |-> Trim(StripLeadingPunct(pq.working)),
     packQtyFromLeft |-> pq.packQty]

\* lines 443-456: sm is the dimension match and wm the word-size match on w1
InlineSized(sc, w1, sm, wm) ==
    LeftRecord(Trim(sc.style), sc.color,
               IF sm.ok THEN MatchText(w1, sm)
               ELSE IF wm.ok THEN Trim(Slice(w1, 0, wm.ends[2]))
               ELSE "",
               LeftPackQty(IF sm.ok THEN Trim(SliceFrom(w1, MatchEnd(sm)))
                           ELSE IF wm.ok THEN Trim(SliceFrom(w1, MatchEnd(wm)))
                           ELSE w1))

InlineAfterColor(sc, w1) ==
    InlineSized(sc, w1, LeftSizeMatch(w1), MatchStart(ReWordSize, w1))

\* Strategy 2, inline-price case: the left-side parse of lines 429-467
InlineColored(sc) == InlineAfterColor(sc, Trim(sc.rest))

InlineLeftSide(left) == InlineColored(SplitStyleColor(left))

\* lines 487-498 and 828-839: the split of a glued digit run, by pack
\* quantity prefixes of 1 and then 2 digits
RECURSIVE SplitDigitRun(_, _)
SplitDigitRun(digits, pqLen) ==
    IF ~(pqLen <= 2 /\ pqLen < Len(digits) - 2)
    THEN [packQty |-> "", totalPacks |-> "", qty |-> digits]
    ELSE IF /\ (Len(digits) - pqLen) \div 2 >= 2
            /\ ParseInt(Slice(digits, pqLen, pqLen + (Len(digits) - pqLen) \div 2)) > 0
            /\ ParseInt(SliceFrom(digits, pqLen + (Len(digits) - pqLen) \div 2)) > 0
         THEN [packQty |-> Slice(digits, 0, pqLen),
               totalPacks |-> Slice(digits, pqLen, pqLen + (Len(digits) - pqLen) \div 2),
               qty |-> SliceFrom(digits, pqLen + (Len(digits) - pqLen) \div 2)]
    ELSE SplitDigitRun(digits, pqLen + 1)

\* a single token: its digits, split when there are four or more
QtyOfDigits(digits) ==
    IF Len(digits) >= 4 THEN SplitDigitRun(digits, 1)
    ELSE [packQty |-> "", totalPacks |-> "", qty |-> digits]

QtyOfParts(parts) ==
    IF Len(parts) >= 3 THEN [packQty |-> parts[1], totalPacks |-> parts[2], qty |-> parts[3]]
    ELSE IF Len(parts) = 2 THEN [packQty |-> parts[1], totalPacks |-> "", qty |-> parts[2]]
    ELSE IF Len(parts) = 1 THEN QtyOfDigits(KeepDigits(parts[1]))
    ELSE [packQty |-> "", totalPacks |-> "", qty |-> ""]

\* a variant of parseQty whose qty is the second number, against which
\* property C8 is tested
parseQtySecond(text) ==
    [QtyOfParts(SplitWs(text)) EXCEPT !.qty = QtyOfParts(SplitWs(text)).totalPacks]

\* parseQty of lines 476-503 (Strategy 2)
parseQty(text) == QtyOfParts(SplitWs(text))

\* /number\s+of\s+packs\s+ordered:\s*/i, the head of the two label patterns
ReNumPacksHead ==
    LitI("NUMBER") \o Plus(WS) \o LitI("OF") \o Plus(WS) \o LitI("PACKS") \o Plus(WS)
        \o LitI("ORDERED:") \o Star(WS)
\* /number\s+of\s+packs\s+ordered:\s*(\d+)\s*units:\s*(\d+)/i
ReNumPacksFull ==
    ReNumPacksHead \o Plus(Digit) \o Star(WS) \o LitI("UNITS:") \o Star(WS) \o Plus(Digit)
\* /number\s+of\s+packs\s+ordered:\s*\d*\s*units:\s*(\d+)/i
ReNumPacksUnits ==
    ReNumPacksHead \o Star(Digit) \o Star(WS) \o LitI("UNITS:") \o Star(WS) \o Plus(Digit)
\* /units:\s*$/i
ReUnitsAtEnd == LitI("UNITS:") \o Star(WS) \o EndAnchor
\* /ordered:\s*(\d+)/i
ReOrderedN == LitI("ORDERED:") \o Star(WS) \o Plus(Digit)
\* /units:\s*(\d+)/i
ReUnitsN == LitI("UNITS:") \o Star(WS) \o Plus(Digit)
\* /^\d{1,2}$/
ReOneOrTwoDigits == Between(Digit, 1, 2) \o EndAnchor

\* the last group (\d+) of a match
LastGroup(s, r) == Slice(s, r.ends[Len(r.ends) - 1], r.ends[Len(r.ends)])

\* the groups N and M of ReNumPacksFull
FullN(s, r) == Slice(s, r.ends[Len(ReNumPacksHead)], r.ends[Len(ReNumPacksHead) + 1])
FullM(s, r) == LastGroup(s, r)

\* lines[k] || ''
LineOrEmpty(ls, k) == IF k >= 0 /\ k < Len(ls) THEN LineAt(ls, k) ELSE ""

\* String(parseInt(a) * parseInt(b))
Times(a, b) == NumToString(ParseInt(a) * ParseInt(b))

\* full, part and packs are the matches of the label patterns on checkLine
PackLabelOf(checkLine, nextLine, full, part, packs) ==
    IF full.ok
    THEN [hit |-> TRUE, packQty |-> FullM(checkLine, full),
          qty |-> Times(FullN(checkLine, full), FullM(checkLine, full))]
    ELSE IF part.ok
    THEN [hit |-> TRUE, packQty |-> LastGroup(checkLine, part), qty |-> ""]
    ELSE IF Search(ReUnitsAtEnd, checkLine).ok
    THEN IF MatchStart(ReOneOrTwoDigits, nextLine).ok
         THEN [hit |-> TRUE, packQty |-> nextLine,
               qty |-> IF packs.ok THEN Times(LastGroup(checkLine, packs), nextLine) ELSE ""]
         ELSE [hit |-> TRUE, packQty |-> "", qty |-> ""]
    ELSE [hit |-> FALSE, packQty |-> "", qty |-> ""]

PackLabelOn(checkLine, nextLine) ==
    PackLabelOf(checkLine, nextLine, Search(ReNumPacksFull, checkLine),
                Search(ReNumPacksUnits, checkLine), Search(ReOrderedN, checkLine))

\* lines 516-541 and 619-644: what a 'number of packs ordered' label on
\* line j gives; hit tells that the look-ahead stops on this line
PackLabel(ls, j) == PackLabelOn(LineOrEmpty(ls, j), Trim(LineOrEmpty(ls, j + 1)))

RECURSIVE InlineLookAhead(_, _, _)
RECURSIVE InlineLookAt(_, _, _, _)
\* the look-ahead of lines 511-542, from line j up to line stop - 1
InlineLookAhead(ls, j, stop) ==
    IF j >= stop THEN [packQty |-> "", qty |-> ""]
    ELSE IF MatchStart(ReSkuStart, LineOrEmpty(ls, j)).ok THEN [packQty |-> "", qty |-> ""]
    ELSE IF IsTotalCostQty(LineOrEmpty(ls, j)) THEN [packQty |-> "", qty |-> ""]
    ELSE InlineLookAt(ls, j, stop, PackLabel(ls, j))

\* label is the outcome of the label patterns on line j
InlineLookAt(ls, j, stop, label) ==
    IF label.hit THEN [packQty |-> label.packQty, qty |-> label.qty]
    ELSE InlineLookAhead(ls, j + 1, stop)

MinOf(a, b) == IF a < b THEN a ELSE b

\* the item literal of lines 544-556
InlineRecord(sku, normalizedPrices, ls1, qtyParsed, look) ==
    [SKU |-> sku, MFGStyle |-> ls1.style, MFGColor |-> ls1.color,
     SizeDesc |-> ls1.sizeDesc, Description |-> ls1.description,
     CostUnit |-> PriceOr(normalizedPrices, 1),
     Comp |-> PriceOr(normalizedPrices, 2),
     Retail |-> PriceOr(normalizedPrices, 3),
     PackQty |-> OrElse(look.packQty, OrElse(ls1.packQtyFromLeft, qtyParsed.packQty)),
     Qty |-> OrElse(look.qty, qtyParsed.qty),
     UPC |-> ""]

\* allPrices are the price matches of remainder
InlineItemOf(ls, k, sku, remainder, allPrices) ==
    InlineRecord(sku, NormalizedPrices(remainder, allPrices),
                 InlineLeftSide(Trim(Slice(remainder, 0, allPrices[1].index))),
                 parseQty(Trim(SliceFrom(remainder, LastPriceEnd(remainder, allPrices, 1, 0)))),
                 InlineLookAhead(ls, k + 1, MinOf(k + 4, Len(ls))))

\* Strategy 2, inline-price case (lines 418-561): the item of the SKU line i
InlineItem(ls, k, sku, remainder) ==
    InlineItemOf(ls, k, sku, remainder, MatchAll(RePrice, remainder))

(***************************************************************************)
(* Strategy 2, deferred-price case (converter.js 564-767).                 *)
(***************************************************************************)
\* of the pairs <<offset, alternative>> that fit, the least
AltFirst(fits) ==
    CHOOSE x \in fits : \A y \in fits : x[1] < y[1] \/ (x[1] = y[1] /\ x[2] <= y[2])

AltPick(pats, s, fits) ==
    IF fits = {} THEN NoMatch ELSE MatchAt(pats[AltFirst(fits)[2]], s, AltFirst(fits)[1])

\* an unanchored alternation (a|b|...): leftmost offset, first alternative
AltSearchFrom(pats, s, p) ==
    AltPick(pats, s, { c \in (p..Len(s)) \X (1..Len(pats)) : MatchAt(pats[c[2]], s, c[1]).ok })

\* /^\.(\d{1,2})\.(.*)$/
RePackQtyPattern == Lit(".") \o Between(Digit, 1, 2) \o Lit(".")
\* /^([A-Z\s]+)(\d{1,2})\.(.*)$/i
ReTextSizePackQty == Plus(Letter \cup WS) \o Between(Digit, 1, 2) \o Lit(".")
\* /^\.(\d)(\d[A-Z].*)$/i
RePackQtyInline == Lit(".") \o One(Digit) \o One(Digit) \o One(Letter)
\* /^\.\d+X\d+/i
ReLooksLikeSize == Lit(".") \o ReDim2
\* /(\d+X\d+X\d+|\d+X\d+|\d+\.\d+|\d+)/i
ReDecimal == Plus(Digit) \o Lit(".") \o Plus(Digit)
DeferredSizeAlts == << ReDim3, ReDim2, ReDecimal, Plus(Digit) >>

\* a, b, c are the matches of the three pack-quantity patterns and d the
\* match of the size pattern on remainder
DeferredSizeOf(remainder, a, b, c, looksLikeSize, d) ==
    IF a.ok
    THEN [sizeDesc |-> ".", packQty |-> Slice(remainder, a.ends[1], a.ends[2]),
          rest |-> SliceFrom(remainder, a.ends[3])]
    ELSE IF b.ok
    THEN [sizeDesc |-> Trim(Slice(remainder, 0, b.ends[1])),
          packQty |-> Slice(remainder, b.ends[1], b.ends[2]),
          rest |-> SliceFrom(remainder, b.ends[3])]
    ELSE IF c.ok /\ ~looksLikeSize
    THEN [sizeDesc |-> ".", packQty |-> Slice(remainder, 1, 2),
          rest |-> SliceFrom(remainder, 2)]
    ELSE IF d.ok
    THEN [sizeDesc |-> MatchText(remainder, d), packQty |-> "",
          rest |-> SliceFrom(remainder, MatchEnd(d))]
    ELSE [sizeDesc |-> "", packQty |-> "", rest |-> remainder]

\* lines 581-604: size and pack quantity of the text after the colour
DeferredSize(remainder) ==
    DeferredSizeOf(remainder, MatchStart(RePackQtyPattern, remainder),
                   MatchStart(ReTextSizePackQty, remainder),
                   MatchStart(RePackQtyInline, remainder),
                   MatchStart(ReLooksLikeSize, remainder).ok,
                   AltSearchFrom(DeferredSizeAlts, remainder, 0))

\* /\$[\d,]+\.\d{2}\d+/
ReCompleteQty == Lit("$") \o Plus(Digit \cup {","}) \o Lit(".") \o Between(Digit, 2, 2) \o Plus(Digit)
\* /^[\d\$\.]/
ReDigitDollarDot == One(Digit \cup {"$", "."})
\* /^\d{2,4}$/
ReStandaloneNumber == Between(Digit, 2, 4) \o EndAnchor
\* /^number\s+of\s+packs/i
ReNumberOfPacks == LitI("NUMBER") \o Plus(WS) \o LitI("OF") \o Plus(WS) \o LitI("PACKS")

\* lines 665-679: a 'number of packs' line after the prices; units and
\* total are the matches of its two numbers
DeferredPacksLine(st, j, checkLine, units, total) ==
    [st EXCEPT
       !.packQty = IF units.ok THEN LastGroup(checkLine, units) ELSE @,
       !.qty = IF total.ok /\ units.ok
               THEN Times(LastGroup(checkLine, total), LastGroup(checkLine, units))
               ELSE @,
       !.reset = j - 1]

RECURSIVE DeferredScan(_, _, _, _)
RECURSIVE DeferredLine(_, _, _, _, _, _, _, _)
\* the look-ahead of lines 613-690 from line j; st.reset is the value the
\* scan assigns to the outer index i (line 683), -1 when it assigns none
DeferredScan(ls, j, searchEnd, st) ==
    IF j >= searchEnd THEN st
    ELSE DeferredLine(ls, j, searchEnd, st, LineOrEmpty(ls, j), PackLabel(ls, j),
                      Search(ReCompleteQty, st.priceLine).ok,
                      MatchStart(ReStandaloneNumber, Trim(LineOrEmpty(ls, j))).ok)

\* one pass of the look-ahead on checkLine
DeferredLine(ls, j, searchEnd, st, checkLine, label, hasCompleteQty, isStandaloneNumber) ==
    IF MatchStart(ReSkuStart, checkLine).ok THEN st
    ELSE IF IsTotalCostQty(checkLine) THEN st
    ELSE IF label.hit
         THEN [st EXCEPT !.packQty = label.packQty, !.qty = label.qty]
    ELSE IF MatchStart(ReNumberOfPacksOrdered, checkLine).ok THEN st
    ELSE IF MatchStart(ReUpcPrefix, checkLine).ok
         THEN DeferredScan(ls, j + 1, searchEnd, [st EXCEPT !.upcLine = checkLine])
    ELSE IF Search(ReDollarDigit, checkLine).ok
         THEN DeferredScan(ls, j + 1, searchEnd,
                           [st EXCEPT !.priceLine = @ \o " " \o checkLine])
    ELSE IF /\ st.priceLine # ""
            /\ MatchStart(ReDigitDollarDot, checkLine).ok
            /\ ~hasCompleteQty /\ ~isStandaloneNumber
         THEN DeferredScan(ls, j + 1, searchEnd,
                           [st EXCEPT !.priceLine = @ \o checkLine])
    ELSE IF /\ st.priceLine # ""
            /\ MatchStart(ReDigitDollarDot, checkLine).ok
            /\ hasCompleteQty /\ isStandaloneNumber
         THEN st
    ELSE IF st.priceLine # "" /\ MatchStart(ReNumberOfPacks, checkLine).ok
         THEN DeferredPacksLine(st, j, checkLine, Search(ReUnitsN, checkLine),
                                Search(ReOrderedN, checkLine))
    ELSE IF /\ st.upcLine = "" /\ st.priceLine = "" /\ checkLine # ""
            /\ ~MatchStart(ReUpcPrefix, checkLine).ok
         THEN DeferredScan(ls, j + 1, searchEnd,
                           [st EXCEPT !.description = @ \o " " \o Trim(checkLine)])
    ELSE DeferredScan(ls, j + 1, searchEnd, st)

\* /(\$\d+\.\d)(\d)(\$)/ and /(\$\d+\.\d)(\d)(\d)/
ReGluedDollar == Lit("$") \o Plus(Digit) \o Lit(".") \o One(Digit) \o One(Digit) \o Lit("$")
ReGluedDigit == Lit("$") \o Plus(Digit) \o Lit(".") \o One(Digit) \o One(Digit) \o One(Digit)

RECURSIVE SpaceBeforeLast(_, _, _)
RECURSIVE SpaceBeforeEnd(_, _, _, _)
\* s.replace(/(...)(\d)(c)/g, '$1$2 $3'): a space goes before the last
\* character of every successive match
SpaceBeforeLast(pat, s, p) == SpaceBeforeEnd(pat, s, p, SearchFrom(pat, s, p))

\* r is the next match at or after p
SpaceBeforeEnd(pat, s, p, r) ==
    IF ~r.ok THEN SliceFrom(s, p)
    ELSE Slice(s, p, MatchEnd(r) - 1) \o " " \o Slice(s, MatchEnd(r) - 1, MatchEnd(r))
             \o SpaceBeforeLast(pat, s, MatchEnd(r))

RECURSIVE RemovePrices(_, _, _, _)
\* for (const p of priceMatches) afterPrices = afterPrices.replace(p, ' ')
RemovePrices(text, src, matches, k) ==
    IF k > Len(matches) THEN text
    ELSE RemovePrices(ReplaceFirst(text, MatchText(src, matches[k]), " "), src, matches, k + 1)

\* lines 724-746: pq packs of tp units each make tu units, for the 1-digit
\* split (pq1, tp1, tu1) and the 2-digit split (pq2, tp2, tu2)
DeferredSplit(qtyDigits, pq1, tp1, tu1, pq2, tp2, tu2) ==
    IF tu1 = tp1 * pq1 /\ pq1 > 0 /\ pq1 <= 12
    THEN [packQty |-> NumToString(pq1), qty |-> NumToString(tu1)]
    ELSE IF Len(qtyDigits) - 2 >= 2
    THEN IF tu2 = tp2 * pq2 /\ pq2 > 0 /\ pq2 <= 24
         THEN [packQty |-> NumToString(pq2), qty |-> NumToString(tu2)]
         ELSE [packQty |-> "", qty |-> SliceFrom(qtyDigits, Len(qtyDigits) \div 2)]
    ELSE [packQty |-> "", qty |-> qtyDigits]

\* lines 720-750: pack quantity and quantity from the digits left after the prices
DeferredQty(qtyDigits) ==
    IF Len(qtyDigits) >= 4
    THEN DeferredSplit(qtyDigits,
                       ParseInt(Slice(qtyDigits, 0, 1)),
                       ParseInt(Slice(qtyDigits, 1, 1 + (Len(qtyDigits) - 1) \div 2)),
                       ParseInt(SliceFrom(qtyDigits, 1 + (Len(qtyDigits) - 1) \div 2)),
                       ParseInt(Slice(qtyDigits, 0, 2)),
                       ParseInt(Slice(qtyDigits, 2, 2 + (Len(qtyDigits) - 2) \div 2)),
                       ParseInt(SliceFrom(qtyDigits, 2 + (Len(qtyDigits) - 2) \div 2)))
    ELSE IF Len(qtyDigits) > 0 THEN [packQty |-> "", qty |-> qtyDigits]
    ELSE [packQty |-> "", qty |-> ""]

\* /(\d{12})/
ReTwelveDigits == Between(Digit, 12, 12)

\* the item literal of lines 752-764
DeferredRecord(sku, sc, sz, st, normalizedPrices, dq, upc) ==
    [SKU |-> sku, MFGStyle |-> Trim(sc.style), MFGColor |-> sc.color,
     SizeDesc |-> sz.sizeDesc, Description |-> Trim(st.description),
     CostUnit |-> PriceOr(normalizedPrices, 1),
     Comp |-> PriceOr(normalizedPrices, 2),
     Retail |-> PriceOr(normalizedPrices, 3),
     PackQty |-> OrElse(sz.packQty, OrElse(st.packQty, dq.packQty)),
     Qty |-> OrElse(st.qty, dq.qty),
     UPC |-> IF upc.ok THEN MatchText(st.upcLine, upc) ELSE ""]

\* lines 698-766: priceMatches are the prices of the cleaned price text
DeferredPriced(sku, sc, sz, st, priceText, priceMatches) ==
    [pushed |-> Len(priceMatches) # 0,
     reset |-> st.reset,
     item |-> DeferredRecord(sku, sc, sz, st, NormalizedPrices(priceText, priceMatches),
                             DeferredQty(KeepDigits(RemovePrices(priceText, priceText,
                                                                 priceMatches, 1))),
                             Search(ReTwelveDigits, st.upcLine))]

\* lines 692-696: the cleaned price text
DeferredCleaned(sku, sc, sz, st, priceText) ==
    DeferredPriced(sku, sc, sz, st, priceText, MatchAll(RePrice, priceText))

\* st is the outcome of the look-ahead
DeferredScanned(sku, sc, sz, st) ==
    DeferredCleaned(sku, sc, sz, st,
                    SpaceBeforeLast(ReGluedDigit,
                                    SpaceBeforeLast(ReGluedDollar, Trim(st.priceLine), 0), 0))

DeferredSized(ls, k, sku, sc, sz) ==
    DeferredScanned(sku, sc, sz,
                    DeferredScan(ls, k + 1, MinOf(k + 10, Len(ls)),
                                 [upcLine |-> "", priceLine |-> "", packQty |-> "", qty |-> "",
                                  description |-> Trim(StripLeadingPunct(sz.rest)),
                                  reset |-> -1]))

DeferredColored(ls, k, sku, sc) == DeferredSized(ls, k, sku, sc, DeferredSize(sc.rest))

\* Strategy 2, deferred-price case: pushed tells whether an item was pushed
\* (line 698), reset is the assignment to i of line 683
DeferredItem(ls, k, sku, remainder0) == DeferredColored(ls, k, sku, SplitStyleColor(remainder0))

\* /^\s*$/
ReBlank == Star(WS) \o EndAnchor

\* lines 564-767: d is the outcome of the deferred-price case
DeferredPass(k, its, d) ==
    [brk |-> FALSE,
     next |-> IF d.reset # -1 THEN d.reset + 1 ELSE k + 1,
     items |-> IF d.pushed THEN Append(its, d.item) ELSE its]

\* lines 410-767: the pass on a line that starts with the SKU sku
Strategy2Row(ls, k, its, sku, remainder) ==
    IF Search(ReDollarDigit, remainder).ok /\ Len(MatchAll(RePrice, remainder)) > 0
    THEN [brk |-> FALSE, next |-> k + 1,
          items |-> Append(its, InlineItem(ls, k, sku, remainder))]
    ELSE DeferredPass(k, its, DeferredItem(ls, k, sku, remainder))

\* lines 396-410: skuMatch is the match of the SKU pattern on line
Strategy2At(ls, k, its, line, skuMatch) ==
    IF line = "" \/ MatchStart(ReBlank, line).ok THEN [brk |-> FALSE, next |-> k + 1, items |-> its]
    ELSE IF IsTotalCostQty(line) THEN [brk |-> TRUE, next |-> k + 1, items |-> its]
    ELSE IF IsNumberOfPacksOnly(line) THEN [brk |-> TRUE, next |-> k + 1, items |-> its]
    ELSE IF ~skuMatch.ok THEN [brk |-> FALSE, next |-> k + 1, items |-> its]
    ELSE Strategy2Row(ls, k, its, SkuOf(line, skuMatch),
                      CollapseWs(Trim(AfterSkuOf(line, skuMatch))))

\* one pass of the for loop of lines 395-768 at index k: brk tells that the
\* loop was left, next is the index of the following pass
Strategy2Pass(ls, k, its) == Strategy2At(ls, k, its, LineAt(ls, k), SkuLead(LineAt(ls, k)))

(***************************************************************************)
(* Strategy 3: single-line compressed rows (converter.js 771-911).         *)
(***************************************************************************)
\* lines 796-802: sm is the dimension match on w1
LeftSized(sc, w1, sm) ==
    LeftRecord(sc.style, sc.color,
               IF sm.ok THEN MatchText(w1, sm) ELSE "",
               LeftPackQty(IF sm.ok THEN Trim(SliceFrom(w1, MatchEnd(sm))) ELSE w1))

LeftAfterColor(sc, w1) == LeftSized(sc, w1, LeftSizeMatch(w1))

LeftColored(sc) == LeftAfterColor(sc, Trim(sc.rest))

\* a variant of parseLeftSide that parses as the inline-price case of
\* Strategy 2 does, against which property C23 is tested
parseLeftSideInline(text) == InlineLeftSide(Trim(text))

\* parseLeftSide of lines 777-815
parseLeftSide(text) == LeftColored(SplitStyleColor(Trim(text)))

\* parseQuantities of lines 817-845
parseQuantities(text) == QtyOfParts(SplitWs(text))

\* /^ordered:\s*$/i
ReOrderedOnly == LitI("ORDERED:") \o Star(WS) \o EndAnchor
\* /^no\.\s+of\s+\w+\s+packs/i
ReNoOfPacks ==
    LitI("NO.") \o Plus(WS) \o LitI("OF") \o Plus(WS) \o Plus(WordChar) \o Plus(WS) \o LitI("PACKS")
\* /^no\.\s+of\s+\w+\s+packs\s+ordered:\s*$/i
ReNoOfPacksOrdered == ReNoOfPacks \o Plus(WS) \o LitI("ORDERED:") \o Star(WS) \o EndAnchor

\* a variant of RetailOf that takes the third price only, against which
\* property C30 is tested
RetailThird(normalizedPrices) == PriceOr(normalizedPrices, 3)

\* retail of lines 895 and 1111
RetailOf(normalizedPrices) ==
    IF Len(normalizedPrices) >= 3 THEN normalizedPrices[3]
    ELSE IF Len(normalizedPrices) = 2 THEN normalizedPrices[2]
    ELSE ""

\* a variant of AlreadyCaptured that finds no SKU captured, against which
\* property C3 is tested
NeverCaptured(seen, sku) == FALSE

\* the membership test of lines 861 and 937
AlreadyCaptured(seen, sku) == sku \in seen

\* the item literal of lines 892-902
CompressedRecord(sku, normalizedPrices, l, q) ==
    [SKU |-> sku, MFGStyle |-> l.style, MFGColor |-> l.color,
     SizeDesc |-> l.sizeDesc, Description |-> l.description,
     CostUnit |-> PriceOr(normalizedPrices, 1),
     Comp |-> Undefined,
     Retail |-> RetailOf(normalizedPrices),
     PackQty |-> OrElse(l.packQtyFromLeft, q.packQty),
     Qty |-> OrElse(q.qty, OrElse(q.totalPacks, "")),
     UPC |-> Undefined]

\* lines 863-907: the item of a compressed row with the prices allPrices
CompressedItem(sku, afterSku, allPrices) ==
    CompressedRecord(sku, NormalizedPrices(afterSku, allPrices),
                     parseLeftSide(Trim(Slice(afterSku, 0, allPrices[1].index))),
                     parseQuantities(Trim(SliceFrom(afterSku,
                                                    LastPriceEnd(afterSku, allPrices, 1, 0)))))

\* lines 864-909: allPrices are the price matches of afterSku
Strategy3Priced(k, its, seen, sku, afterSku, allPrices) ==
    IF Len(allPrices) = 0 THEN [brk |-> FALSE, next |-> k + 1, items |-> its, seen |-> seen]
    ELSE [brk |-> FALSE, next |-> k + 1,
          items |-> Append(its, CompressedItem(sku, afterSku, allPrices)),
          seen |-> seen \cup {sku}]

\* lines 858-862: the pass on a line that starts with the SKU sku
Strategy3Row(k, its, seen, sku, afterSku) ==
    IF AlreadyCaptured(seen, sku) THEN [brk |-> FALSE, next |-> k + 1, items |-> its, seen |-> seen]
    ELSE Strategy3Priced(k, its, seen, sku, afterSku, MatchAll(RePrice, afterSku))

\* lines 848-857: skuMatch is the match of the SKU pattern on line
Strategy3At(k, its, seen, line, skuMatch) ==
    IF line = "" THEN [brk |-> FALSE, next |-> k + 1, items |-> its, seen |-> seen]
    ELSE IF \/ IsTotalCostQty(line)
            \/ IsNumberOfPacksOnly(line)
            \/ MatchStart(ReOrderedOnly, line).ok
            \/ MatchStart(ReNoOfPacksOrdered, line).ok
         THEN [brk |-> TRUE, next |-> k + 1, items |-> its, seen |-> seen]
    ELSE IF ~skuMatch.ok THEN [brk |-> FALSE, next |-> k + 1, items |-> its, seen |-> seen]
    ELSE Strategy3Row(k, its, seen, SkuOf(line, skuMatch), Trim(AfterSkuOf(line, skuMatch)))

\* one pass of the for loop of lines 847-910 at index k
Strategy3Pass(ls, k, its, seen) ==
    Strategy3At(k, its, seen, LineAt(ls, k), SkuLead(LineAt(ls, k)))

(***************************************************************************)
(* Strategy 4: multi-line rows with a distant price (converter.js          *)
(* 913-1145).                                                              *)
(***************************************************************************)
\* /^total\s+pack\s+/i
ReTotalPackWs == LitI("TOTAL") \o Plus(WS) \o LitI("PACK") \o Plus(WS)
\* /^total\s+(cost|qty|pack)/i
ReTotalPack == LitI("TOTAL") \o Plus(WS) \o LitI("PACK")
IsTotalCostQtyPack(text) == IsTotalCostQty(text) \/ MatchStart(ReTotalPack, text).ok
\* /^Pack\s*SKU/i
RePackSku == LitI("PACK") \o Star(WS) \o LitI("SKU")
\* /^number/i
ReNumber == LitI("NUMBER")
\* /^\$/
ReDollar == Lit("$")
\* /^\.?(\d+(?:\.\d+)?[A-Z]?)\s*/i, with and without the optional group
ReDistantSizeFrac ==
    Opt({"."}) \o Plus(Digit) \o Lit(".") \o Plus(Digit) \o Opt(Letter) \o Star(WS)
ReDistantSizeInt == Opt({"."}) \o Plus(Digit) \o Opt(Letter) \o Star(WS)

\* a, b, c are the matches of the three pack-quantity patterns, f and g
\* those of the size pattern with and without a fraction
DistantSizeOf(afterSku, a, b, c, looksLikeSize, f, g) ==
    IF a.ok
    THEN [sizeDesc |-> ".", packQty |-> Slice(afterSku, a.ends[1], a.ends[2]),
          rest |-> Trim(SliceFrom(afterSku, a.ends[3]))]
    ELSE IF b.ok
    THEN [sizeDesc |-> Trim(Slice(afterSku, 0, b.ends[1])),
          packQty |-> Slice(afterSku, b.ends[1], b.ends[2]),
          rest |-> Trim(SliceFrom(afterSku, b.ends[3]))]
    ELSE IF c.ok /\ ~looksLikeSize
    THEN [sizeDesc |-> ".", packQty |-> Slice(afterSku, 1, 2),
          rest |-> Trim(SliceFrom(afterSku, 2))]
    ELSE IF f.ok
    THEN [sizeDesc |-> Slice(afterSku, f.ends[1], f.ends[5]), packQty |-> "",
          rest |-> Trim(SliceFrom(afterSku, MatchEnd(f)))]
    ELSE IF g.ok
    THEN [sizeDesc |-> Slice(afterSku, g.ends[1], g.ends[3]), packQty |-> "",
          rest |-> Trim(SliceFrom(afterSku, MatchEnd(g)))]
    ELSE [sizeDesc |-> "", packQty |-> "", rest |-> afterSku]

\* lines 969-992: size and pack quantity of the text after the colour
DistantSize(afterSku) ==
    DistantSizeOf(afterSku, MatchStart(RePackQtyPattern, afterSku),
                  MatchStart(ReTextSizePackQty, afterSku),
                  MatchStart(RePackQtyInline, afterSku),
                  MatchStart(ReLooksLikeSize, afterSku).ok,
                  MatchStart(ReDistantSizeFrac, afterSku),
                  MatchStart(ReDistantSizeInt, afterSku))

RECURSIVE FindPriceLine(_, _, _, _)
RECURSIVE FindPriceAt(_, _, _, _, _)
\* lines 1000-1017: the line with the first price, and the description
\* parts passed on the way; idx = -1 when the search gives up
FindPriceLine(ls, j, stop, descParts) ==
    IF j >= stop THEN [idx |-> -1, descParts |-> descParts]
    ELSE FindPriceAt(ls, j, stop, descParts, Trim(LineAt(ls, j)))

\* one pass of the search on checkLine
FindPriceAt(ls, j, stop, descParts, checkLine) ==
    IF checkLine = "" THEN FindPriceLine(ls, j + 1, stop, descParts)
    ELSE IF \/ IsNumberOfPacksOnly(checkLine)
            \/ MatchStart(ReOrderedOnly, checkLine).ok
            \/ MatchStart(ReNoOfPacksOrdered, checkLine).ok
            \/ IsTotalCostQtyPack(checkLine)
            \/ SkuLead(checkLine).ok
         THEN [idx |-> -1, descParts |-> descParts]
    ELSE IF Search(ReDollarDigit, checkLine).ok
         THEN [idx |-> j, descParts |-> descParts]
    ELSE IF MatchStart(ReUpcPrefix, checkLine).ok
         THEN FindPriceLine(ls, j + 1, stop, descParts)
    ELSE FindPriceLine(ls, j + 1, stop, Append(descParts, checkLine))

\* /Number Of Packs Ordered:\s*(\d+)/i
RePacksOrderedN == LitI("NUMBER OF PACKS ORDERED:") \o Star(WS) \o Plus(Digit)
\* /^\d$/, /^\d{2,3}$/, /^\d{4,}$/, /^\d{1,4}$/
ReOneDigit == One(Digit) \o EndAnchor
ReTwoOrThreeDigits == Between(Digit, 2, 3) \o EndAnchor
ReFourOrMoreDigits == Between(Digit, 4, -1) \o EndAnchor
ReUpToFourDigits == Between(Digit, 1, 4) \o EndAnchor

\* lines 1040-1047: pq is the pack quantity of the label line and
\* packsMatch the match of its number of packs
DistantLabelQty(st, checkLine, pq, packsMatch) ==
    [st EXCEPT !.packQtyFromNumberLine = pq,
               !.qty = IF packsMatch.ok /\ pq # ""
                       THEN Times(LastGroup(checkLine, packsMatch), pq)
                       ELSE IF packsMatch.ok THEN LastGroup(checkLine, packsMatch)
                       ELSE @]

\* lines 1030-1039: unitsMatch is the match of 'Units: n' on checkLine
DistantLabelOn(st, checkLine, nextLine, unitsMatch) ==
    DistantLabelQty(st, checkLine,
                    IF unitsMatch.ok THEN LastGroup(checkLine, unitsMatch)
                    ELSE IF Search(ReUnitsAtEnd, checkLine).ok
                            /\ MatchStart(ReOneOrTwoDigits, nextLine).ok
                         THEN nextLine
                    ELSE st.packQtyFromNumberLine,
                    Search(RePacksOrderedN, checkLine))

\* lines 1029-1048: the 'number of packs' label that ends the price scan
DistantLabel(ls, j, st, checkLine) ==
    DistantLabelOn(st, checkLine, Trim(LineOrEmpty(ls, j + 1)), Search(ReUnitsN, checkLine))

RECURSIVE PriceScan(_, _, _, _)
RECURSIVE PriceScanAt(_, _, _, _, _, _)
\* the loop of lines 1026-1093
PriceScan(ls, j, stop, st) ==
    IF j >= stop THEN st
    ELSE PriceScanAt(ls, j, stop, st, Trim(LineAt(ls, j)), Search(ReCompleteQty, st.priceText).ok)

\* one pass of the loop on checkLine
PriceScanAt(ls, j, stop, st, checkLine, hasCompleteQty) ==
    IF MatchStart(ReNumberOfPacks, checkLine).ok THEN DistantLabel(ls, j, st, checkLine)
    ELSE IF IsTotalCostQtyPack(checkLine) THEN st
    ELSE IF SkuLead(checkLine).ok THEN st
    ELSE IF MatchStart(ReUpcPrefix, checkLine).ok THEN PriceScan(ls, j + 1, stop, st)
    ELSE IF Search(ReDollarDigit, checkLine).ok
         THEN IF hasCompleteQty THEN st
              ELSE PriceScan(ls, j + 1, stop,
                             [st EXCEPT !.foundPriceLine = TRUE,
                                        !.priceText = @ \o " " \o checkLine])
    ELSE IF st.foundPriceLine /\ MatchStart(ReOneDigit, checkLine).ok
         THEN PriceScan(ls, j + 1, stop,
                        IF ~hasCompleteQty THEN [st EXCEPT !.priceText = @ \o checkLine]
                        ELSE st)
    ELSE IF st.foundPriceLine /\ MatchStart(ReTwoOrThreeDigits, checkLine).ok
         THEN PriceScan(ls, j + 1, stop, st)
    ELSE IF st.foundPriceLine /\ MatchStart(ReFourOrMoreDigits, checkLine).ok
         THEN PriceScan(ls, j + 1, stop,
                        IF ~hasCompleteQty THEN [st EXCEPT !.priceText = @ \o " " \o checkLine]
                        ELSE st)
    ELSE IF st.foundPriceLine /\ MatchStart(ReUpToFourDigits, checkLine).ok
         THEN PriceScan(ls, j + 1, stop, st)
    ELSE PriceScan(ls, j + 1, stop, [st EXCEPT !.priceText = @ \o " " \o checkLine])

\* /(\$[\d,]+\.\d)(\d)/, the consuming part of the pattern of line 1097
ReTwoCents == Lit("$") \o Plus(Digit \cup {","}) \o Lit(".") \o One(Digit) \o One(Digit)

\* the lookahead (?=[^.\d]|$) after the match r
CentsEnds(s, r) ==
    r.ok /\ (MatchEnd(r) = Len(s) \/ CharAt(s, MatchEnd(r)) \notin Digit \cup {"."})

\* /(\$[\d,]+\.\d)(\d)(?=[^.\d]|$)/ at offset q
CentsAt(s, q) == CentsEnds(s, MatchAt(ReTwoCents, s, q))

\* /(\$[\d,]+\.\d)(\d)(?=[^.\d]|$)/: the leftmost match at an offset >= p
CentsSearch(s, p) == MatchAtLeast(ReTwoCents, s, { q \in p..Len(s) : CentsAt(s, q) })

RECURSIVE SpaceAfterCents(_, _)
RECURSIVE SpaceAfterEnd(_, _, _)
\* s.replace(/(\$[\d,]+\.\d)(\d)(?=[^.\d]|$)/g, '$1$2 '): a space goes after
\* every price with two decimals that no '.' or digit follows
SpaceAfterCents(s, p) == SpaceAfterEnd(s, p, CentsSearch(s, p))

\* r is the next match at or after p
SpaceAfterEnd(s, p, r) ==
    IF ~r.ok THEN SliceFrom(s, p)
    ELSE Slice(s, p, MatchEnd(r)) \o " " \o SpaceAfterCents(s, MatchEnd(r))

\* a variant of DistantQty that halves a digit run of every length, against
\* which property C26 is tested
DistantQtyHalved(qtyDigits) ==
    [packQty |-> IF Len(qtyDigits) >= 4 THEN Slice(qtyDigits, 0, 1) ELSE "",
     qty |-> SliceFrom(qtyDigits, Len(qtyDigits) \div 2)]

\* lines 1113-1127: quantity from the digits left after the prices
DistantQty(qtyDigits) ==
    IF Len(qtyDigits) >= 4
    THEN [packQty |-> Slice(qtyDigits, 0, 1),
          qty |-> SliceFrom(qtyDigits, 1 + (Len(qtyDigits) - 1) \div 2)]
    ELSE IF Len(qtyDigits) > 0 THEN [packQty |-> "", qty |-> qtyDigits]
    ELSE [packQty |-> "", qty |-> ""]

\* lines 947-954: a SKU alone on its line takes the next line as its data
PullNextLine(k, len, afterSku, nextLine) ==
    IF /\ afterSku = "" /\ k + 1 < len
       /\ nextLine # ""
       /\ ~MatchStart(ReUpcPrefix, nextLine).ok
       /\ ~MatchStart(ReDollar, nextLine).ok
       /\ ~SkuLead(nextLine).ok
       /\ ~MatchStart(ReNumber, nextLine).ok
    THEN [afterSku |-> nextLine, dataLineIdx |-> k + 1]
    ELSE [afterSku |-> afterSku, dataLineIdx |-> k]

\* the item literal of lines 1129-1141
DistantRecord(sku, sc, sz, fp, st, normalizedPrices, dq) ==
    [SKU |-> sku, MFGStyle |-> sc.style, MFGColor |-> sc.color,
     SizeDesc |-> sz.sizeDesc,
     Description |-> Trim(Join(fp.descParts, " ")),
     CostUnit |-> PriceOr(normalizedPrices, 1),
     Comp |-> Undefined,
     Retail |-> RetailOf(normalizedPrices),
     PackQty |-> OrElse(sz.packQty, OrElse(st.packQtyFromNumberLine, dq.packQty)),
     Qty |-> dq.qty,
     UPC |-> Undefined]

\* lines 1098-1127: priceMatches are the prices of the cleaned price text
DistantPriced(sku, sc, sz, fp, st, cleanPriceText, priceMatches) ==
    DistantRecord(sku, sc, sz, fp, st, NormalizedPrices(cleanPriceText, priceMatches),
                  IF st.qty = ""
                  THEN DistantQty(KeepDigits(RemovePrices(cleanPriceText, cleanPriceText,
                                                          priceMatches, 1)))
                  ELSE [packQty |-> "", qty |-> st.qty])

DistantCleaned(sku, sc, sz, fp, st, cleanPriceText) ==
    DistantPriced(sku, sc, sz, fp, st, cleanPriceText, MatchAll(RePrice, cleanPriceText))

\* line 1097: st is the outcome of the price scan
DistantScanned(sku, sc, sz, fp, st) ==
    DistantCleaned(sku, sc, sz, fp, st, SpaceAfterCents(Trim(st.priceText), 0))

\* lines 1019-1143: fp is the outcome of the search for the price line
DistantFound(ls, sku, sc, sz, fp) ==
    IF fp.idx = -1 THEN [pushed |-> FALSE, priceLineIdx |-> -1, item |-> << >>]
    ELSE [pushed |-> TRUE, priceLineIdx |-> fp.idx,
          item |-> DistantScanned(sku, sc, sz, fp,
                                  PriceScan(ls, fp.idx, MinOf(fp.idx + 8, Len(ls)),
                                            [priceText |-> "", foundPriceLine |-> FALSE,
                                             packQtyFromNumberLine |-> "", qty |-> ""]))]

DistantSized(ls, dataLineIdx, sku, sc, sz) ==
    DistantFound(ls, sku, sc, sz,
                 FindPriceLine(ls, dataLineIdx + 1, MinOf(dataLineIdx + 6, Len(ls)),
                               IF sz.rest # "" THEN << sz.rest >> ELSE << >>))

DistantColored(ls, dataLineIdx, sku, sc) ==
    DistantSized(ls, dataLineIdx, sku, sc, DistantSize(Trim(sc.rest)))

DistantPulled(ls, sku, pull) ==
    DistantColored(ls, pull.dataLineIdx, sku, SplitStyleColor(pull.afterSku))

\* lines 941-1143 for the SKU line k: pushed tells whether an item was
\* pushed (line 1019), priceLineIdx is the index that line 1143 assigns to i
DistantItem(ls, k, sku, afterSku0) ==
    DistantPulled(ls, sku, PullNextLine(k, Len(ls), afterSku0, Trim(LineOrEmpty(ls, k + 1))))

\* a variant of DistantPass that sets the index back to the line before the
\* SKU line, against which property C19 is tested
DistantPassBack(k, its, d) ==
    IF ~d.pushed THEN [next |-> k + 1, items |-> its]
    ELSE [next |-> k, items |-> Append(its, d.item)]

\* lines 1019 and 1143: d is the outcome for the SKU line k
DistantPass(k, its, d) ==
    IF ~d.pushed THEN [next |-> k + 1, items |-> its]
    ELSE [next |-> d.priceLineIdx + 1, items |-> Append(its, d.item)]

\* lines 934-1143: the pass on a line that starts with the SKU sku
Strategy4Row(ls, k, its, seen, sku, afterSku) ==
    IF AlreadyCaptured(seen, sku) THEN [next |-> k + 1, items |-> its]
    ELSE IF Search(ReDollarDigit, afterSku).ok THEN [next |-> k + 1, items |-> its]
    ELSE DistantPass(k, its, DistantItem(ls, k, sku, afterSku))

\* lines 920-933: skuMatch is the match of the SKU pattern on line
Strategy4At(ls, k, its, seen, line, skuMatch) ==
    IF line = "" THEN [next |-> k + 1, items |-> its]
    ELSE IF \/ IsTotalCostQty(line)
            \/ MatchStart(ReNoOfPacks, line).ok
            \/ MatchStart(ReTotalPackWs, line).ok
            \/ MatchStart(RePackSku, line).ok
            \/ MatchStart(RePage, line).ok
         THEN [next |-> k + 1, items |-> its]
    ELSE IF ~skuMatch.ok THEN [next |-> k + 1, items |-> its]
    ELSE Strategy4Row(ls, k, its, seen, SkuOf(line, skuMatch), Trim(AfterSkuOf(line, skuMatch)))

\* one pass of the for loop of lines 919-1144 at index k
Strategy4Pass(ls, k, its, seen) ==
    Strategy4At(ls, k, its, seen, LineAt(ls, k), SkuLead(LineAt(ls, k)))

(***************************************************************************)
(* Post-filter (converter.js 1147-1168).                                   *)
(***************************************************************************)
\* /^Units\d*/i
ReUnitsArtifact == LitI("UNITS") \o Star(Digit)

\* /^Units\d+$/i
ReUnitsNumber == LitI("UNITS") \o Plus(Digit) \o EndAnchor

\* a variant of KeepItem without the test of cost and quantity, against
\* which property C9 is tested
KeepStyled(item) ==
    /\ ~MatchStart(ReUnitsArtifact, Trim(OrElse(item.MFGStyle, ""))).ok
    /\ ~MatchStart(ReAllDigits, Trim(OrElse(item.MFGStyle, ""))).ok

\* a variant of KeepItem whose artifact pattern is Units with a number and
\* nothing else, against which property C10 is tested
KeepUnlessUnitsNumber(item) ==
    /\ ~MatchStart(ReUnitsNumber, Trim(OrElse(item.MFGStyle, ""))).ok
    /\ ~MatchStart(ReAllDigits, Trim(OrElse(item.MFGStyle, ""))).ok
    /\ ~(Trim(OrElse(item.CostUnit, "")) = "" /\ OrElse(item.Qty, "") = "")

\* the predicate of filteredItems: TRUE for an item that is kept
KeepItem(item) ==
    LET style == Trim(OrElse(item.MFGStyle, ""))
        cost == Trim(OrElse(item.CostUnit, ""))
    IN  /\ ~MatchStart(ReUnitsArtifact, style).ok
        /\ ~MatchStart(ReAllDigits, style).ok
        /\ ~(cost = "" /\ OrElse(item.Qty, "") = "")

\* items.filter(...)
FilterItems(its) == SelectSeq(its, KeepItem)

(***************************************************************************)
(* Input documents.  The general documents are a header block followed by  *)
(* at most MaxBody body blocks; eight families of documents vary one part  *)
(* of the input each: the distance between the header words, the           *)
(* quantities of a stacked block, the fields of a single-line row, the     *)
(* style, price and quantity seen by the post-filter, the line about the   *)
(* number of packs behind a price line, what stands between two stacked    *)
(* blocks, the order of the lines of a stacked block, and the digits       *)
(* behind the prices of a row of Strategy 4.                               *)
(***************************************************************************)
HeaderBlocks ==
    { << >>,
      << "PO 1001", "SKU MFG Style Description" >>,
      << "Pack SKU", "MFG Style", "MFG Color" >> }

BodyBlocks ==
    { << "12345678", "RedStyle", "Red", "10X8", "Widget", "$5.00", "$7.00", "$10.00", "2", "3", "4" >>,
      << "A", "12345678", "BlueStyle", "$6.00", "5" >>,
      << "23456789", "Plain" >>,
      << "12345678 Widget Red 10X8 $5.00 $7.00 2 3 4" >>,
      << "45678901 AB12 NO SIZE 3.0 Thing $1,000.5 $2.00 12448" >>,
      << "C 56789012 ABC Blue.3.Thing", "UPC: 012345678905", "$5.00$7.5 $9.992448" >>,
      << "Total Qty 7" >>,
      << "Number of Packs Ordered: 3 Units: 4" >> }

RECURSIVE Bodies(_)
\* the concatenations of at most n body blocks
Bodies(n) ==
    IF n = 0 THEN { << >> }
    ELSE Bodies(n - 1) \cup { b \o c : b \in Bodies(n - 1), c \in BodyBlocks }

GeneralDocuments == { h \o b : h \in HeaderBlocks, b \in Bodies(MaxBody) }

\* a header on one line
OneLineHeader == << "SKU MFG Style Description" >>

\* g lines that carry no header word
Filler(g) == [k \in 1..g |-> "x"]

\* the header words up to MaxGap filler lines apart, with and without an
\* earlier line that carries SKU, and with and without a row behind them
HeaderGapDocuments ==
    { pre \o << "Pack SKU" >> \o Filler(g) \o << "MFG Style" >> \o row :
        pre \in { << >>, << "Our SKU list" >> },
        g \in 0..MaxGap,
        row \in { << >>, << "12345678 Widget Red 10X8 $5.00 $7.00 2 3 4" >> } }

StackedTexts ==
    { << "RedStyle", "Red", "10X8", "Widget" >>,
      << "Tee 100", "No Color", "NO SIZE", "Long sleeve tee" >> }

StackedPriceRuns ==
    { << "$5.00", "$7.00", "$10.00" >>, << "$1,250.00", "$0.99", "$12.50" >> }

SmallInts == { "2", "12", "4" }

\* one, two or three small integers
StackedIntRuns == UNION { [1..n -> SmallInts] : n \in 1..3 }

\* a stacked block of a SKU line, four text lines, three prices and one to
\* three small integers
StackedDocuments ==
    { OneLineHeader \o << "12345678" >> \o t \o p \o q :
        t \in StackedTexts, p \in StackedPriceRuns, q \in StackedIntRuns }

RowLefts == { "Widget Red 10X8", "AB12 NO SIZE 3.0 Thing", "Plain" }

RowPrices == { "$5.00", "$5.00 $7.00", "$5.00 $7.5 $10.00" }

RowNumbers == { << "2", "3", "4" >>, << "1", "12", "12" >>, << "10", "20", "200" >> }

\* one row of a SKU, a left text, one to three prices and three numbers
RowDocuments ==
    { OneLineHeader \o << "12345678 " \o l \o " " \o p \o " " \o Join(n, " ") >> :
        l \in RowLefts, p \in RowPrices, n \in RowNumbers }

FilterStyles == { "Plain", "Units", "units12", "Unitsy", "4471", "12 Pack" }

FilterTails == { << >>, << "$1.00" >>, << "$1.00", "2" >> }

\* stacked blocks whose style, cost and quantity vary, and a row whose item
\* has a quantity and no cost
FilterDocuments ==
    { OneLineHeader \o << "34567890", st >> \o t : st \in FilterStyles, t \in FilterTails }
        \cup { OneLineHeader \o << "78901234 Thing", "$5 1234" >> }

PacksLines ==
    { "Number of Packs", "Number of Packs Units: 6",
      "Number of Packs in all ordered: 2 units: 6", "Number of Packs Ordered: 3 Units: 4" }

\* a row whose prices are on a later line, a line about the number of packs
\* behind the prices, and with and without a row behind that
PacksDocuments ==
    { OneLineHeader \o << "56789012 ABC Blue.3.Thing" >> \o u \o << "$5.00 $7.5" >> \o << p >> \o row :
        u \in { << >>, << "UPC: 012345678905" >> },
        p \in PacksLines,
        row \in { << >>, << "23456789 Plain $1.00 2 3 4" >> } }

\* what may stand between two stacked blocks
BlockMarkers ==
    { << >>, << "A" >>, << "Page 2 of 3" >>, << "Total Qty 7" >>, << "Total Cost $10.00" >>,
      << "Number of Packs" >>, << "Number of Packs Ordered: 3 Units: 4" >>,
      << "Number of Packs Ordered: 3 Units: 4", "Page 2 of 3" >> }

\* two stacked blocks with a marker between them
MarkerDocuments ==
    { OneLineHeader \o << "12345678", "RedStyle", "$5.00", "2" >> \o m
                    \o << "23456789", "BlueStyle", "$6.00", "3" >> :
        m \in BlockMarkers }

ShapeLines == { "Tee", "7", "$5.00", "012345678905" }

\* a stacked block of three lines of any shape in any order, and blocks of
\* more than four text lines
ShapeDocuments ==
    { OneLineHeader \o << "12345678" >> \o b : b \in [1..3 -> ShapeLines] }
        \cup { OneLineHeader \o << "12345678", "Tee", "Red", "S", "Long", "sleeve" >> \o t :
                  t \in { << >>, << "tee", "$5.00", "2" >> } }

DigitTails == { "", " 4", " 48", " 448", " 2448", " 12448", " 112448" }

\* behind a stacked block and a page marker, a row whose prices are on the
\* next line, with a digit run of every length behind the prices, and with
\* and without a label of the number of packs ordered behind that
DistantDocuments ==
    { OneLineHeader \o << "12345678", "Page 2 of 3", "56789012 ABC Blue Thing" >>
                    \o << "$5.00 $7.50" \o d >> \o l :
        d \in DigitTails,
        l \in { << >>, << "Number of Packs Ordered: 3 Units: 4" >> } }

Documents ==
    GeneralDocuments \cup HeaderGapDocuments \cup StackedDocuments
        \cup RowDocuments \cup FilterDocuments \cup PacksDocuments
        \cup MarkerDocuments \cup ShapeDocuments \cup DistantDocuments

(***************************************************************************)
(* parseSkuTable as a state machine.                                       *)
(***************************************************************************)
VARIABLES
    lines,          \* the trimmed lines of the document
    pc,             \* position in parseSkuTable
    headerIdx,      \* index of the header line, -1 when there is none
    idx,            \* loop index of Strategy 1
    i,              \* loop index of Strategies 2, 3 and 4
    items,          \* the item list under construction
    existingSkus,   \* the seen-SKU set of Strategies 3 and 4
    filteredItems,  \* the returned list
    ran,            \* the strategies entered so far, in order
    origin          \* origin[k]: the strategy that pushed items[k]

\* the normaliser of a matched price, applied on its own
VARIABLES
    priceIn,        \* the matched amount
    priceOut,       \* the amount after the normalisations so far
    passes          \* the number of normalisations applied

\* convertMultiplePdfsToExcel
VARIABLES
    files,          \* the batch: what reading and parsing each file gives
    bpc,            \* position in convertMultiplePdfsToExcel
    fileIdx,        \* loop index of the per-file loop
    allRecords,     \* the records of the files processed so far
    firstMetadata,  \* the metadata of the file at index 0
    mergedDict,     \* key -> merged record
    keysOrder,      \* the keys in the order of their creation
    recIdx,         \* the number of records merged so far
    workbook        \* the workbook returned

\* the Apps Script web app
VARIABLES
    request,        \* the request that the web app is called with
    spc,            \* position of the web app: called, or has replied
    response,       \* what doGet or doPost returns
    handler,        \* the action handler that was run, "none" when none was
    drive           \* the kinds of Drive operation of the handler that was run

\* the browser app
VARIABLES
    configApiKey,       \* CONFIG.apiKey, the key of the settings
    disabled,           \* the disabled flag of the three workflow buttons
    processedBlob,      \* the blob last produced, null at first
    processedFileName,  \* the name it is saved under
    currentTimestamp,   \* the timestamp last generated
    now,                \* the second that the clock shows
    wf,                 \* the workflows started so far, each at its await
    statusEl,           \* the status message and its type
    resultPanel,        \* whether the panel with the download button shows
    driveFiles          \* the blobs that the web app has stored in Drive

parserVars == << lines, pc, headerIdx, idx, i, items, existingSkus, filteredItems, ran, origin >>

priceVars == << priceIn, priceOut, passes >>

batchVars ==
    << files, bpc, fileIdx, allRecords, firstMetadata, mergedDict, keysOrder, recIdx, workbook >>

\* null
Null == [isNull |-> TRUE]

\* convertMultiplePdfsToExcel is not running
BatchIdle ==
    /\ files = << >>
    /\ bpc = "idle"
    /\ fileIdx = 0
    /\ allRecords = << >>
    /\ firstMetadata = Null
    /\ mergedDict = << >>
    /\ keysOrder = << >>
    /\ recIdx = 0
    /\ workbook = Null

scriptVars == << request, spc, response, handler, drive >>

\* the web app is not called
ScriptIdle ==
    /\ request = Null
    /\ spc = "idle"
    /\ response = Null
    /\ handler = "none"
    /\ drive = {}

appVars ==
    << configApiKey, disabled, processedBlob, processedFileName, currentTimestamp, now, wf,
       statusEl, resultPanel, driveFiles >>

\* a workflow that was not started
NoWorkflow ==
    [kind |-> "none", at |-> "none", customerFile |-> Null, blob |-> Null, isMerged |-> FALSE,
     xhr |-> "unsent", reply |-> Null, uploadSuccess |-> "none"]

\* the app as it is loaded (app.js 17-19), no workflow started
AppIdle ==
    /\ configApiKey = ""
    /\ disabled = [customerBtn |-> FALSE, vendorBtn |-> FALSE, combinedBtn |-> FALSE]
    /\ processedBlob = Null
    /\ processedFileName = "merged-output.xlsx"
    /\ currentTimestamp = ""
    /\ now = 0
    /\ wf = [w \in 1..MaxWorkflows |-> NoWorkflow]
    /\ statusEl = [text |-> "", type |-> ""]
    /\ resultPanel = FALSE
    /\ driveFiles = {}

\* the variables that parseSkuTable does not touch
notParser == << priceVars, batchVars, scriptVars, appVars >>

vars == << parserVars, notParser >>

\* origin extended for the items pushed by strategy n
Pushed(its, n) == origin \o [k \in 1..(Len(its) - Len(items)) |-> n]

\* new Set(items.map(item => item.SKU))
SkuSet(its) == { its[k].SKU : k \in 1..Len(its) }

\* a variant of Strategy2Gate that lets Strategy 2 run on every document,
\* against which property C6 is tested
Strategy2Always(its) == TRUE

\* the gate of line 392
Strategy2Gate(its) == Len(its) = 0

Init ==
    /\ lines \in { [k \in 1..Len(d) |-> Trim(d[k])] : d \in Documents }
    /\ pc = "locate"
    /\ headerIdx = -1
    /\ idx = 0
    /\ i = 0
    /\ items = << >>
    /\ existingSkus = {}
    /\ filteredItems = << >>
    /\ ran = << >>
    /\ origin = << >>
    /\ priceIn = ""
    /\ priceOut = ""
    /\ passes = 0
    /\ BatchIdle
    /\ ScriptIdle
    /\ AppIdle

\* lines 270-284
LocateHeader ==
    /\ pc = "locate"
    /\ headerIdx' = FindHeaderIdx(lines)
    /\ pc' = IF headerIdx' = -1 THEN "done" ELSE "gate1"
    /\ filteredItems' = IF headerIdx' = -1 THEN items ELSE filteredItems
    /\ UNCHANGED << lines, idx, i, items, existingSkus, ran, origin >>
    /\ UNCHANGED notParser

\* lines 287-290
Strategy1Begin ==
    /\ pc = "gate1"
    /\ FirstSkuIdx(lines, headerIdx) # -1
    /\ idx' = FirstSkuIdx(lines, headerIdx)
    /\ pc' = "s1"
    /\ ran' = Append(ran, 1)
    /\ UNCHANGED << lines, headerIdx, i, items, existingSkus, filteredItems, origin >>
    /\ UNCHANGED notParser

Strategy1Skip ==
    /\ pc = "gate1"
    /\ FirstSkuIdx(lines, headerIdx) = -1
    /\ pc' = "gate2"
    /\ UNCHANGED << lines, headerIdx, idx, i, items, existingSkus, filteredItems, ran, origin >>
    /\ UNCHANGED notParser

\* lines 297-387, one pass
Strategy1Block ==
    /\ pc = "s1"
    /\ \E r \in { StackedBlock(lines, idx, items) } :
           /\ idx' = r.idx
           /\ items' = r.items
           /\ origin' = Pushed(r.items, 1)
           /\ pc' = IF r.brk THEN "gate2" ELSE "s1"
    /\ UNCHANGED << lines, headerIdx, i, existingSkus, filteredItems, ran >>
    /\ UNCHANGED notParser

\* lines 392-395
Strategy2Begin ==
    /\ pc = "gate2"
    /\ Strategy2Gate(items)
    /\ i' = headerIdx + 1
    /\ pc' = "s2"
    /\ ran' = Append(ran, 2)
    /\ UNCHANGED << lines, headerIdx, idx, items, existingSkus, filteredItems, origin >>
    /\ UNCHANGED notParser

Strategy2Skip ==
    /\ pc = "gate2"
    /\ ~Strategy2Gate(items)
    /\ pc' = "gate3"
    /\ UNCHANGED << lines, headerIdx, idx, i, items, existingSkus, filteredItems, ran, origin >>
    /\ UNCHANGED notParser

\* lines 395-768, one pass
Strategy2Line ==
    /\ pc = "s2"
    /\ IF i >= Len(lines)
       THEN /\ pc' = "gate3"
            /\ UNCHANGED << i, items, origin >>
       ELSE \E r \in { Strategy2Pass(lines, i, items) } :
                /\ i' = r.next
                /\ items' = r.items
                /\ origin' = Pushed(r.items, 2)
                /\ pc' = IF r.brk THEN "gate3" ELSE "s2"
    /\ UNCHANGED << lines, headerIdx, idx, existingSkus, filteredItems, ran >>
    /\ UNCHANGED notParser

\* lines 772-775 and 847
Strategy3Begin ==
    /\ pc = "gate3"
    /\ existingSkus' = SkuSet(items)
    /\ i' = headerIdx + 1
    /\ pc' = "s3"
    /\ ran' = Append(ran, 3)
    /\ UNCHANGED << lines, headerIdx, idx, items, filteredItems, origin >>
    /\ UNCHANGED notParser

\* lines 847-910, one pass
Strategy3Line ==
    /\ pc = "s3"
    /\ IF i >= Len(lines)
       THEN /\ pc' = "gate4"
            /\ UNCHANGED << i, items, origin, existingSkus >>
       ELSE \E r \in { Strategy3Pass(lines, i, items, existingSkus) } :
                /\ i' = r.next
                /\ items' = r.items
                /\ existingSkus' = r.seen
                /\ origin' = Pushed(r.items, 3)
                /\ pc' = IF r.brk THEN "gate4" ELSE "s3"
    /\ UNCHANGED << lines, headerIdx, idx, filteredItems, ran >>
    /\ UNCHANGED notParser

\* lines 914-919
Strategy4Begin ==
    /\ pc = "gate4"
    /\ existingSkus' = SkuSet(items)
    /\ i' = headerIdx + 1
    /\ pc' = "s4"
    /\ ran' = Append(ran, 4)
    /\ UNCHANGED << lines, headerIdx, idx, items, filteredItems, origin >>
    /\ UNCHANGED notParser

\* lines 919-1144, one pass
Strategy4Line ==
    /\ pc = "s4"
    /\ IF i >= Len(lines)
       THEN /\ pc' = "filter"
            /\ UNCHANGED << i, items, origin >>
       ELSE \E r \in { Strategy4Pass(lines, i, items, existingSkus) } :
                /\ i' = r.next
                /\ items' = r.items
                /\ origin' = Pushed(r.items, 4)
                /\ pc' = "s4"
    /\ UNCHANGED << lines, headerIdx, idx, existingSkus, filteredItems, ran >>
    /\ UNCHANGED notParser

\* lines 1147-1168
PostFilter ==
    /\ pc = "filter"
    /\ filteredItems' = FilterItems(items)
    /\ pc' = "done"
    /\ UNCHANGED << lines, headerIdx, idx, i, items, existingSkus, ran, origin >>
    /\ UNCHANGED notParser

Next ==
    \/ LocateHeader
    \/ Strategy1Begin
    \/ Strategy1Skip
    \/ Strategy1Block
    \/ Strategy2Begin
    \/ Strategy2Skip
    \/ Strategy2Line
    \/ Strategy3Begin
    \/ Strategy3Line
    \/ Strategy4Begin
    \/ Strategy4Line
    \/ PostFilter

Spec == Init /\ [][Next]_vars

TypeOK == pc \in {"locate", "gate1", "s1", "gate2", "s2", "gate3", "s3", "gate4", "s4", "filter", "done"}

(***************************************************************************)
(* Properties of parseSkuTable.                                            *)
(***************************************************************************)
\* parseSkuTable has returned
Returned == pc = "done"

\* strategy n was entered
Ran(n) == \E k \in 1..Len(ran) : ran[k] = n

\* no two items of its have the same SKU
PairwiseDistinctSkus(its) ==
    \A j, k \in 1..Len(its) : j # k => its[j].SKU # its[k].SKU

\* line k of the document has word in it, in any case
Mentions(k, word) == Includes(ToUpperCase(LineAt(lines, k)), word)

\* some line from..to of the document has word in it
WindowMentions(from, to, word) ==
    \E m \in from..MinOf(to, Len(lines) - 1) : Mentions(m, word)

\* C1: when Strategy 1 ran on the document, no two items of the returned
\* list have the same SKU.  The parser does not keep this: the same bare SKU
\* line in two stacked blocks gives two items.
C1_StackedSkusUnique ==
    (Returned /\ Ran(1)) => PairwiseDistinctSkus(filteredItems)

\* C2: when Strategy 1 pushed no item, the returned list has pairwise
\* distinct SKUs.  The parser does not keep this: Strategy 2 pushes an item
\* for every line that starts with a SKU and has a price.
C2_LaterSkusUnique ==
    (Returned /\ headerIdx # -1 /\ \A k \in 1..Len(origin) : origin[k] # 1)
        => PairwiseDistinctSkus(filteredItems)

\* one step keeps the items pushed so far as they are, and an item that
\* Strategy 3 or 4 pushes has a SKU that no earlier strategy has pushed
C3_Step ==
    /\ Len(items') >= Len(items)
    /\ SubSeq(items', 1, Len(items)) = items
    /\ SubSeq(origin', 1, Len(origin)) = origin
    /\ \A k \in (Len(items) + 1)..Len(items') :
           origin'[k] \in {3, 4}
               => \A j \in 1..Len(items) :
                      origin[j] < origin'[k] => items[j].SKU # items'[k].SKU

\* C3: first match wins across strategies: Strategy 3 pushes no SKU that
\* Strategy 1 or 2 pushed, Strategy 4 pushes no SKU that Strategy 1, 2 or 3
\* pushed, and no step changes an item that is in the list.
C3_FirstMatchWins == [][C3_Step]_vars

\* C3, its case: Strategy 1 pushed an item whose SKU starts a line that
\* Strategy 4 looked at, and Strategy 4 pushed another item
C3_Witness ==
    /\ Returned
    /\ \E k \in 1..Len(items) :
           /\ origin[k] = 1
           /\ \E n \in (headerIdx + 1)..(Len(lines) - 1) :
                  /\ SkuLead(LineAt(lines, n)).ok
                  /\ SkuOf(LineAt(lines, n), SkuLead(LineAt(lines, n))) = items[k].SKU
    /\ \E m \in 1..Len(items) : origin[m] = 4

\* C4: on a document without a line that meets the header criteria no
\* strategy is entered, no item is pushed, and the returned list is empty.
C4_NoHeaderNoItems ==
    (\A k \in 0..(Len(lines) - 1) : ~IsHeaderAt(lines, k))
        => /\ ran = << >>
           /\ items = << >>
           /\ filteredItems = << >>
           /\ pc \in {"locate", "done"}

\* C4, its case: a document with a line that starts with a SKU and with a
\* price, and without a header, has returned the empty list
C4_Witness ==
    /\ Returned
    /\ headerIdx = -1
    /\ \E n \in 0..(Len(lines) - 1) :
           /\ SkuLead(LineAt(lines, n)).ok
           /\ Search(RePrice, LineAt(lines, n)).ok
    /\ filteredItems = << >>

\* C5 as the specification words it: the header is the first line with SKU
\* for which the next 6 lines have MFG and STYLE.  The parser does not
\* behave so: its window is the line itself and the 5 lines after it.
C5_NextSixLines ==
    pc # "locate"
        => headerIdx = LeastOr({ k \in 0..(Len(lines) - 1) :
                                   /\ Mentions(k, "SKU")
                                   /\ WindowMentions(k + 1, k + 6, "MFG")
                                   /\ WindowMentions(k + 1, k + 6, "STYLE") }, -1)

\* C5: the header is the first line with SKU in it, in any case, for which
\* the line itself and the 5 lines after it have MFG in one of them and
\* STYLE in one of them; it is -1 when there is no such line.
C5_HeaderWindow ==
    pc # "locate"
        => headerIdx = LeastOr({ k \in 0..(Len(lines) - 1) :
                                   /\ Mentions(k, "SKU")
                                   /\ WindowMentions(k, k + 5, "MFG")
                                   /\ WindowMentions(k, k + 5, "STYLE") }, -1)

\* C5, its case: the header was found with MFG on the last line of its
\* window and on no line before
C5_Witness ==
    /\ Returned
    /\ headerIdx # -1
    /\ headerIdx + 5 < Len(lines)
    /\ ~WindowMentions(headerIdx, headerIdx + 4, "MFG")
    /\ Mentions(headerIdx + 5, "MFG")

\* a line of 8 or 9 digits and nothing else
BareSkuLine(k) ==
    /\ Len(LineAt(lines, k)) \in {8, 9}
    /\ \A c \in CharsOf(LineAt(lines, k)) : c \in Digit

\* C6: on a document with a header the strategies are entered in rising
\* order; Strategy 1 is entered exactly when a bare SKU line follows the
\* header, Strategy 2 exactly when Strategy 1 pushed no item, and
\* Strategies 3 and 4 always.
C6_StrategyOrder ==
    (Returned /\ headerIdx # -1)
        => /\ \A j, k \in 1..Len(ran) : j < k => ran[j] < ran[k]
           /\ Ran(1) <=> \E k \in (headerIdx + 1)..(Len(lines) - 1) : BareSkuLine(k)
           /\ Ran(2) <=> \A k \in 1..Len(origin) : origin[k] # 1
           /\ Ran(3)
           /\ Ran(4)

\* C6, its case: Strategy 1 pushed items, Strategy 2 was left out, and
\* Strategies 3 and 4 ran
C6_Witness ==
    /\ Returned
    /\ ran = << 1, 3, 4 >>
    /\ \E k \in 1..Len(origin) : origin[k] = 1

\* C7: a stacked block of a SKU line, four text lines, three prices and
\* three small integers gives one item with the four texts as style,
\* colour, size and description, the prices as cost, comp and retail, the
\* first integer as pack quantity and the third as quantity; with two
\* integers the quantity is the second, with one integer it is that one.
C7_StackedBlock ==
    (Returned /\ lines \in StackedDocuments)
        => /\ Len(filteredItems) = 1
           /\ filteredItems[1].SKU = lines[2]
           /\ filteredItems[1].MFGStyle = lines[3]
           /\ filteredItems[1].MFGColor = lines[4]
           /\ filteredItems[1].SizeDesc = lines[5]
           /\ filteredItems[1].Description = lines[6]
           /\ filteredItems[1].CostUnit = lines[7]
           /\ filteredItems[1].Comp = lines[8]
           /\ filteredItems[1].Retail = lines[9]
           /\ filteredItems[1].PackQty = lines[10]
           /\ Len(lines) = 12 => filteredItems[1].Qty = lines[12]
           /\ Len(lines) = 11 => filteredItems[1].Qty = lines[11]
           /\ Len(lines) = 10 => filteredItems[1].Qty = lines[10]

\* C7, its case: a stacked block with two integers that differ has given
\* its item
C7_Witness ==
    /\ Returned
    /\ lines \in StackedDocuments
    /\ Len(lines) = 11
    /\ lines[10] # lines[11]
    /\ Len(filteredItems) = 1

\* C8: a row of a SKU, a left text, prices and three numbers gives one
\* item in the returned list, and its quantity is the third number.
C8_SingleRow ==
    (Returned /\ lines \in RowDocuments)
        => /\ Len(filteredItems) = 1
           /\ filteredItems[1].SKU = "12345678"
           /\ filteredItems[1].Qty = SplitWs(lines[2])[Len(SplitWs(lines[2]))]

\* C8, its case: Strategy 2 pushed the item of the row, Strategies 3 and 4
\* ran after it, and the list has the one item
C8_Witness ==
    /\ Returned
    /\ lines \in RowDocuments
    /\ origin = << 2 >>
    /\ Ran(3)
    /\ Ran(4)
    /\ Len(filteredItems) = 1

\* C9: every item of the returned list has a cost or a quantity.
C9_CostOrQty ==
    Returned => \A k \in 1..Len(filteredItems) :
                    filteredItems[k].CostUnit # "" \/ filteredItems[k].Qty # ""

\* C9, its case: an item with a style that passes, without cost and without
\* quantity, was pushed and is not in the returned list
C9_Witness ==
    /\ Returned
    /\ Len(items) = 1
    /\ items[1].MFGStyle = "Plain"
    /\ items[1].CostUnit = ""
    /\ items[1].Qty = ""
    /\ filteredItems = << >>

\* the characters of s are digits, and there is one at least
PurelyNumeric(s) == Len(s) > 0 /\ \A c \in CharsOf(s) : c \in Digit

\* s is the word Units, in any case, followed by a number
UnitsWithNumber(s) ==
    /\ Len(s) > 5
    /\ ToUpperCase(Slice(s, 0, 5)) = "UNITS"
    /\ PurelyNumeric(SliceFrom(s, 5))

\* s starts with the word Units, in any case
StartsWithUnits(s) == Len(s) >= 5 /\ ToUpperCase(Slice(s, 0, 5)) = "UNITS"

\* the item has no cost and no quantity
NoCostNoQty(item) == Trim(item.CostUnit) = "" /\ item.Qty = ""

\* the items that C10 keeps as the specification words it
KeptAsWorded(item) ==
    ~(\/ PurelyNumeric(Trim(item.MFGStyle))
      \/ UnitsWithNumber(Trim(item.MFGStyle))
      \/ NoCostNoQty(item))

\* the items that the parser keeps
KeptByPrefix(item) ==
    ~(\/ PurelyNumeric(Trim(item.MFGStyle))
      \/ StartsWithUnits(Trim(item.MFGStyle))
      \/ NoCostNoQty(item))

\* C10 as the specification words it: an item is dropped exactly when its
\* style is purely numeric, or is Units followed by a number, or it has no
\* cost and no quantity.  The parser does not behave so: it drops every
\* item whose style starts with Units.
C10_UnitsNumberOnly == Returned /\ headerIdx # -1 => filteredItems = SelectSeq(items, KeptAsWorded)

\* C10: an item is dropped exactly when its style is purely numeric, or
\* starts with the word Units in any case, or it has no cost and no
\* quantity; the items kept are in their original order.
C10_FilterRule == Returned /\ headerIdx # -1 => filteredItems = SelectSeq(items, KeptByPrefix)

\* C10, its case: an item with a cost whose style starts with Units and
\* goes on with a letter was pushed and is not in the returned list
C10_Witness ==
    /\ Returned
    /\ Len(items) = 1
    /\ items[1].MFGStyle = "Unitsy"
    /\ items[1].CostUnit = "$1.00"
    /\ filteredItems = << >>

(***************************************************************************)
(* The price normaliser on its own (converter.js 421-424, 700-706,         *)
(* 868-874, 1101-1107): a matched amount is normalised MaxPasses times.    *)
(***************************************************************************)
\* parseSkuTable is not running
ParserIdle ==
    /\ lines = << >>
    /\ pc = "idle"
    /\ headerIdx = -1
    /\ idx = 0
    /\ i = 0
    /\ items = << >>
    /\ existingSkus = {}
    /\ filteredItems = << >>
    /\ ran = << >>
    /\ origin = << >>

\* no amount is being normalised
PriceIdle == priceIn = "" /\ priceOut = "" /\ passes = 0

\* the digits before the point
AmountWholes == { "$0", "$5", "$12", "$1,250" }

\* one or two digits after the point
AmountFractions == Digit \cup { a \o b : a \in Digit, b \in Digit }

\* the amounts that the price pattern matches as a whole
Amounts ==
    { p \in { w \o "." \o f : w \in AmountWholes, f \in AmountFractions } :
        MatchStart(RePrice, p).ok /\ MatchEnd(MatchStart(RePrice, p)) = Len(p) }

NormalizeInit ==
    /\ ParserIdle
    /\ priceIn \in Amounts
    /\ priceOut = priceIn
    /\ passes = 0
    /\ BatchIdle
    /\ ScriptIdle
    /\ AppIdle

\* one application of the normaliser to the amount
NormalizeOnce ==
    /\ passes < MaxPasses
    /\ priceOut' = NormalizePrice(priceOut)
    /\ passes' = passes + 1
    /\ UNCHANGED << parserVars, batchVars, scriptVars, appVars, priceIn >>

NormalizeNext == NormalizeOnce

NormalizeSpec == NormalizeInit /\ [][NormalizeNext]_vars

\* the number of characters of p after its point
FractionLength(p) == Len(p) - IndexOfFrom(p, ".", 0) - 1

\* C11: a normalised amount is the matched amount with a 0 put behind it
\* when it has one fractional digit, and the matched amount itself when it
\* has two; a second normalisation gives what the first one gave.
C11_NormalizeIdempotent ==
    passes >= 1
        => /\ FractionLength(priceIn) = 1 => priceOut = priceIn \o "0"
           /\ FractionLength(priceIn) = 2 => priceOut = priceIn
           /\ FractionLength(priceOut) = 2

\* C11, its case: $12.3 has been normalised twice and is $12.30
C11_Witness ==
    /\ priceIn = "$12.3"
    /\ passes = 2
    /\ priceOut = "$12.30"

(***************************************************************************)
(* convertMultiplePdfsToExcel (converter.js 1174-1400).  A file of the     *)
(* batch is given by what lines 1182-1189 make of it: the call that        *)
(* raises, if one does, and otherwise the vendor and the PO number of its  *)
(* metadata and the items that parseSkuTable returns.  Of an item the      *)
(* merge reads the SKU, the style, the cost, the retail, the pack quantity *)
(* and the quantity.  null and 0 are both falsy wherever the merge tests   *)
(* them, and are both written 0; an amount of the workbook is in cents.    *)
(***************************************************************************)
BatchItem(sku, style, cost, retail, packQty, qty) ==
    [SKU |-> sku, MFGStyle |-> style, CostUnit |-> cost, Retail |-> retail,
     PackQty |-> packQty, Qty |-> qty]

WidgetTwoPrices == BatchItem("12345678", "Widget", "$5.00", "", "2", "4")
WidgetThreePrices == BatchItem("12345678", "Widget", "$6.00", "$10.00", "3", "6")
WidgetNoCost == BatchItem("12345678", "Widget", "", "", "", "5")
PlainNoQty == BatchItem("12345678", "Plain", "$5.00", "$9.00", "", "")
OtherSku == BatchItem("23456789", "Widget", "$1,250.00", "$2.00", "12", "24")

BatchFile(name, raises, vendor, po, its) ==
    [name |-> name, raises |-> raises, VENDOR |-> vendor, PO |-> po, items |-> its]

\* files that are read and parsed
GoodFiles ==
    { BatchFile("a.pdf", "none", "BEALLS", "123456", << WidgetTwoPrices >>),
      BatchFile("b.pdf", "none", "", "123456", << WidgetThreePrices, OtherSku >>),
      BatchFile("c.pdf", "none", "BURKES", "654321", << WidgetNoCost, PlainNoQty >>),
      BatchFile("d.pdf", "none", "BEALLS", "", << WidgetTwoPrices >>),
      BatchFile("e.pdf", "none", "BEALLS", "654321", << >>) }

\* files on which arrayBuffer, extractPdfText or getPoMetadata raises
BadFiles ==
    { BatchFile("x.pdf", "arrayBuffer", "", "", << >>),
      BatchFile("y.pdf", "extractPdfText", "", "", << >>),
      BatchFile("z.pdf", "getPoMetadata", "", "", << >>) }

FilePool == GoodFiles \cup BadFiles

Batches == UNION { [1..n -> FilePool] : n \in 0..MaxFiles }

\* lines 1191-1195: the records of a file
RecordsOf(file) ==
    [k \in 1..Len(file.items) |->
        [SKU |-> file.items[k].SKU, MFGStyle |-> file.items[k].MFGStyle,
         CostUnit |-> file.items[k].CostUnit, Retail |-> file.items[k].Retail,
         PackQty |-> file.items[k].PackQty, Qty |-> file.items[k].Qty,
         VENDOR |-> file.VENDOR, PO |-> file.PO, SourceFile |-> file.name]]

\* parseInt(v || 0) of a value that is empty or starts with a digit
ParseIntOrZero(v) == IF OrElse(v, "") = "" THEN 0 ELSE ParseInt(v)

\* a variant of MergeKey that is the SKU alone, against which property C16 is
\* tested
MergeKeyBySku(record) == OrElse(record.SKU, "")

\* lines 1215-1217
MergeKey(record) == OrElse(record.SKU, "") \o "|" \o OrElse(record.MFGStyle, "")

\* lines 1220-1228
NewMerged(record) ==
    [SKU |-> OrElse(record.SKU, ""), MFGStyle |-> OrElse(record.MFGStyle, ""),
     CostUnit |-> OrElse(record.CostUnit, ""), Retail |-> OrElse(record.Retail, ""),
     PackQty |-> 0, PO_Quantities |-> << >>, SourceFiles |-> {}]

\* a variant of MergePackQty that takes every pack quantity above zero,
\* against which property C14 is tested
MergePackQtyLast(packQty, record) ==
    IF ParseIntOrZero(record.PackQty) > 0 THEN ParseIntOrZero(record.PackQty) ELSE packQty

\* lines 1235-1238
MergePackQty(packQty, record) ==
    IF packQty = 0 /\ ParseIntOrZero(record.PackQty) > 0
    THEN ParseIntOrZero(record.PackQty)
    ELSE packQty

\* a variant of MergeQuantities that stores the quantity of the record in
\* place of the sum, against which property C12 is tested
MergeQuantitiesLast(quantities, record) ==
    IF record.PO # ""
    THEN [po \in DOMAIN quantities \cup { record.PO } |->
             IF po = record.PO THEN ParseIntOrZero(record.Qty) ELSE quantities[po]]
    ELSE quantities

\* lines 1241-1245
MergeQuantities(quantities, record) ==
    IF record.PO # ""
    THEN [po \in DOMAIN quantities \cup { record.PO } |->
             IF po = record.PO
             THEN (IF po \in DOMAIN quantities THEN quantities[po] ELSE 0)
                      + ParseIntOrZero(record.Qty)
             ELSE quantities[po]]
    ELSE quantities

\* lines 1247-1249
MergeSources(sources, record) ==
    IF record.SourceFile # "" THEN sources \cup { record.SourceFile } ELSE sources

\* lines 1232-1249: the merged record of the key takes the record in
MergeInto(merged, record) ==
    [merged EXCEPT !.PackQty = MergePackQty(merged.PackQty, record),
                   !.PO_Quantities = MergeQuantities(merged.PO_Quantities, record),
                   !.SourceFiles = MergeSources(merged.SourceFiles, record)]

\* lines 1219-1249: mergedDict after one pass of the merge loop
MergeRecord(dict, record) ==
    [key \in DOMAIN dict \cup { MergeKey(record) } |->
        IF key = MergeKey(record)
        THEN MergeInto(IF key \in DOMAIN dict THEN dict[key] ELSE NewMerged(record), record)
        ELSE dict[key]]

\* a variant of KeysOrderAfter that pushes the key of every record, against
\* which property C15 is tested
KeysOrderEvery(dict, order, record) == Append(order, MergeKey(record))

\* lines 1219 and 1229: keysOrder after one pass of the merge loop
KeysOrderAfter(dict, order, record) ==
    IF MergeKey(record) \in DOMAIN dict THEN order ELSE Append(order, MergeKey(record))

RECURSIVE InsertionOrder(_, _)
\* [...new Set(seq)]: the values of seq in the order of their first places
InsertionOrder(seq, acc) ==
    IF Len(seq) = 0 THEN acc
    ELSE InsertionOrder(Tail(seq),
                        IF \E k \in 1..Len(acc) : acc[k] = Head(seq)
                        THEN acc ELSE Append(acc, Head(seq)))

\* one PO number put into a sorted list, behind the numbers that are not
\* above it
InsertPO(sorted, po) ==
    SubSeq(sorted, 1, Cardinality({ k \in 1..Len(sorted) : ParseInt(sorted[k]) <= ParseInt(po) }))
        \o << po >>
        \o SubSeq(sorted, Cardinality({ k \in 1..Len(sorted) : ParseInt(sorted[k]) <= ParseInt(po) }) + 1,
                  Len(sorted))

RECURSIVE SortPOs(_, _)
\* uniquePOs.sort((a, b) => (parseInt(a) || 0) - (parseInt(b) || 0)), a
\* stable sort
SortPOs(seq, sorted) ==
    IF Len(seq) = 0 THEN sorted ELSE SortPOs(Tail(seq), InsertPO(sorted, Head(seq)))

\* lines 1253-1254
UniquePOs(records) ==
    SortPOs(InsertionOrder(SelectSeq([k \in 1..Len(records) |-> records[k].PO],
                                     LAMBDA po : po # ""), << >>), << >>)

RECURSIVE StripDollarComma(_)
\* s.replace(/[$,]/g, ''), computed by halves
StripDollarComma(s) ==
    IF Len(s) = 0 THEN ""
    ELSE IF Len(s) = 1 THEN (IF s \in { "$", "," } THEN "" ELSE s)
    ELSE StripDollarComma(Slice(s, 0, Len(s) \div 2))
             \o StripDollarComma(SliceFrom(s, Len(s) \div 2))

\* the cents of parseFloat(t) for a text of digits, a point and two digits
CentsOf(t, parts) ==
    IF t = "" THEN 0
    ELSE ParseInt(parts[1]) * 100
             + (IF Len(parts) >= 2 THEN ParseInt(Slice(parts[2] \o "00", 0, 2)) ELSE 0)

\* lines 1340-1343: parseFloat((s || '').replace(/[$,]/g, '')) || null
AmountOf(s) == CentsOf(StripDollarComma(OrElse(s, "")), SplitDot(StripDollarComma(OrElse(s, ""))))

\* lines 1362-1367: the quantity cells of a row
QuantityCells(quantities, uniquePOs) ==
    [k \in 1..Len(uniquePOs) |->
        IF uniquePOs[k] \in DOMAIN quantities /\ quantities[uniquePOs[k]] > 0
        THEN quantities[uniquePOs[k]] ELSE 0]

\* lines 1334-1370: the row of a merged record
RowOf(merged, uniquePOs) ==
    [SKU |-> merged.SKU, MFGStyle |-> merged.MFGStyle,
     Cost |-> AmountOf(merged.CostUnit), Retail |-> AmountOf(merged.Retail),
     PackQty |-> merged.PackQty,
     Quantities |-> QuantityCells(merged.PO_Quantities, uniquePOs),
     Sources |-> merged.SourceFiles]

\* line 1260
VendorName(metadata) ==
    IF metadata.isNull THEN "VENDOR" ELSE OrElse(metadata.VENDOR, "VENDOR")

\* lines 1253-1399
WorkbookOf(metadata, records, dict, order) ==
    [isNull |-> FALSE,
     vendorName |-> VendorName(metadata),
     uniquePOs |-> UniquePOs(records),
     rows |-> [k \in 1..Len(order) |-> RowOf(dict[order[k]], UniquePOs(records))]]

\* a variant of NothingExtracted that never holds, against which property
\* C18 is tested
SomethingExtracted(records) == FALSE

\* line 1203
NothingExtracted(records) == Len(records) = 0

BatchInit ==
    /\ ParserIdle
    /\ PriceIdle
    /\ files \in Batches
    /\ bpc = "files"
    /\ fileIdx = 0
    /\ allRecords = << >>
    /\ firstMetadata = Null
    /\ mergedDict = << >>
    /\ keysOrder = << >>
    /\ recIdx = 0
    /\ workbook = Null
    /\ ScriptIdle
    /\ AppIdle

\* a variant of FileSkipped in which the file that raises ends the loop,
\* against which property C17 is tested
FileAborts ==
    /\ bpc = "files"
    /\ fileIdx < Len(files)
    /\ files[fileIdx + 1].raises # "none"
    /\ fileIdx' = Len(files)
    /\ UNCHANGED << parserVars, priceVars, scriptVars, appVars,
                    files, bpc, allRecords, firstMetadata,
                    mergedDict, keysOrder, recIdx, workbook >>

\* lines 1181-1197: one pass of the per-file loop on a file that raises
\* nothing
FileProcessed ==
    /\ bpc = "files"
    /\ fileIdx < Len(files)
    /\ files[fileIdx + 1].raises = "none"
    /\ firstMetadata' =
           IF fileIdx = 0
           THEN [isNull |-> FALSE, VENDOR |-> files[fileIdx + 1].VENDOR,
                 PO |-> files[fileIdx + 1].PO]
           ELSE firstMetadata
    /\ allRecords' = allRecords \o RecordsOf(files[fileIdx + 1])
    /\ fileIdx' = fileIdx + 1
    /\ UNCHANGED << parserVars, priceVars, scriptVars, appVars,
                    files, bpc, mergedDict, keysOrder, recIdx, workbook >>

\* lines 1181-1200: one pass of the per-file loop on a file that raises; the
\* catch logs it
FileSkipped ==
    /\ bpc = "files"
    /\ fileIdx < Len(files)
    /\ files[fileIdx + 1].raises # "none"
    /\ fileIdx' = fileIdx + 1
    /\ UNCHANGED << parserVars, priceVars, scriptVars, appVars,
                    files, bpc, allRecords, firstMetadata,
                    mergedDict, keysOrder, recIdx, workbook >>

\* lines 1203-1205: the error of the batch that gave no record
NoDataExtracted ==
    /\ bpc = "files"
    /\ fileIdx = Len(files)
    /\ NothingExtracted(allRecords)
    /\ bpc' = "thrown"
    /\ UNCHANGED << parserVars, priceVars, scriptVars, appVars,
                    files, fileIdx, allRecords, firstMetadata,
                    mergedDict, keysOrder, recIdx, workbook >>

\* lines 1203-1212
MergeBegin ==
    /\ bpc = "files"
    /\ fileIdx = Len(files)
    /\ ~NothingExtracted(allRecords)
    /\ mergedDict' = << >>
    /\ keysOrder' = << >>
    /\ recIdx' = 0
    /\ bpc' = "merge"
    /\ UNCHANGED << parserVars, priceVars, scriptVars, appVars,
                    files, fileIdx, allRecords, firstMetadata, workbook >>

\* lines 1214-1250, one pass
MergeOne ==
    /\ bpc = "merge"
    /\ recIdx < Len(allRecords)
    /\ mergedDict' = MergeRecord(mergedDict, allRecords[recIdx + 1])
    /\ keysOrder' = KeysOrderAfter(mergedDict, keysOrder, allRecords[recIdx + 1])
    /\ recIdx' = recIdx + 1
    /\ UNCHANGED << parserVars, priceVars, scriptVars, appVars,
                    files, bpc, fileIdx, allRecords, firstMetadata,
                    workbook >>

\* lines 1252-1399
WriteWorkbook ==
    /\ bpc = "merge"
    /\ recIdx = Len(allRecords)
    /\ workbook' = WorkbookOf(firstMetadata, allRecords, mergedDict, keysOrder)
    /\ bpc' = "done"
    /\ UNCHANGED << parserVars, priceVars, scriptVars, appVars,
                    files, fileIdx, allRecords, firstMetadata,
                    mergedDict, keysOrder, recIdx >>

BatchNext ==
    \/ FileProcessed
    \/ FileSkipped
    \/ NoDataExtracted
    \/ MergeBegin
    \/ MergeOne
    \/ WriteWorkbook

BatchSpec == BatchInit /\ [][BatchNext]_vars

(***************************************************************************)
(* Properties of convertMultiplePdfsToExcel.                               *)
(***************************************************************************)
\* the places <<file, item>> of the items of the files that raise nothing
Places ==
    UNION { { << f, k >> : k \in 1..Len(files[f].items) } :
            f \in { g \in 1..Len(files) : files[g].raises = "none" } }

\* the item at a place, and the PO number it comes with
ItemAt(pl) == files[pl[1]].items[pl[2]]
PoAt(pl) == files[pl[1]].PO

\* the places of the items with a SKU and a style
PlacesOfKey(sku, style) ==
    { pl \in Places : ItemAt(pl).SKU = sku /\ ItemAt(pl).MFGStyle = style }

\* the quantity at a place as a number, 0 when there is none
QtyAt(pl) == IF ItemAt(pl).Qty = "" THEN 0 ELSE ParseInt(ItemAt(pl).Qty)

RECURSIVE SumQty(_)
\* the sum of the quantities at the places S
SumQty(S) ==
    IF S = {} THEN 0
    ELSE QtyAt(CHOOSE pl \in S : TRUE) + SumQty(S \ { CHOOSE pl \in S : TRUE })

\* the PO numbers of the files of the batch
BatchPOs == { files[f].PO : f \in 1..Len(files) } \ { "" }

\* C12: when the merge is done, the quantity stored for a key and a PO number
\* is the sum of the quantities of the items with that key in the files with
\* that PO number, whatever the places of the files in the batch; a PO number
\* with no such item has no stored quantity.
C12_QuantitiesAdded ==
    bpc = "done"
        => \A key \in DOMAIN mergedDict : \A po \in BatchPOs :
               IF { pl \in PlacesOfKey(mergedDict[key].SKU, mergedDict[key].MFGStyle) :
                      PoAt(pl) = po } = {}
               THEN po \notin DOMAIN mergedDict[key].PO_Quantities
               ELSE mergedDict[key].PO_Quantities[po]
                        = SumQty({ pl \in PlacesOfKey(mergedDict[key].SKU,
                                                      mergedDict[key].MFGStyle) :
                                     PoAt(pl) = po })

\* C12, its case: two files with one PO number carry items of one key with
\* the quantities 4 and 6, the second file first, and 10 is stored
C12_Witness ==
    /\ bpc = "done"
    /\ Len(files) = 2
    /\ files[1].name = "b.pdf"
    /\ files[2].name = "a.pdf"
    /\ mergedDict["12345678|Widget"].PO_Quantities["123456"] = 10

\* the records that the merge has taken in, and those of them with a key
MergedSoFar == SubSeq(allRecords, 1, recIdx)
RecordsOfKey(records, key) == SelectSeq(records, LAMBDA record : MergeKey(record) = key)

\* the costs and the retails of a list of records, in its order
CostsOf(records) == [k \in 1..Len(records) |-> records[k].CostUnit]
RetailsOf(records) == [k \in 1..Len(records) |-> records[k].Retail]

\* the first text of a list that is not empty, "" when all are empty
FirstNonEmpty(texts) ==
    IF \E k \in 1..Len(texts) : texts[k] # ""
    THEN texts[LeastOr({ k \in 1..Len(texts) : texts[k] # "" }, 1)]
    ELSE ""

\* C13 as the specification words it: the merged cost of a key is the first
\* cost that is not empty among the records of the key in processing order,
\* and its merged retail is the first retail that is not empty.  The merge
\* does not behave so: it takes the cost and the retail of the record that
\* creates the key, empty or not, and of no later one.
C13_FirstNonEmptyPrices ==
    bpc = "done"
        => \A key \in DOMAIN mergedDict :
               /\ mergedDict[key].CostUnit
                      = FirstNonEmpty(CostsOf(RecordsOfKey(allRecords, key)))
               /\ mergedDict[key].Retail
                      = FirstNonEmpty(RetailsOf(RecordsOfKey(allRecords, key)))

\* the pack quantities of a list of records as numbers, in its order
PackQtysOf(records) == [k \in 1..Len(records) |-> ParseIntOrZero(records[k].PackQty)]

\* the first number of a list that is above zero, 0 when none is
FirstPositive(numbers) ==
    IF \E k \in 1..Len(numbers) : numbers[k] > 0
    THEN numbers[LeastOr({ k \in 1..Len(numbers) : numbers[k] > 0 }, 1)]
    ELSE 0

\* C14: after every pass of the merge loop the pack quantity of a key is the
\* first pack quantity above zero among the records of the key taken in so
\* far, and is unset when there is none; a pack quantity above zero is
\* therefore kept by every later pass.
C14_PackQtyFirstPositive ==
    bpc \in { "merge", "done" }
        => /\ DOMAIN mergedDict = { MergeKey(MergedSoFar[k]) : k \in 1..recIdx }
           /\ \A key \in DOMAIN mergedDict :
                  mergedDict[key].PackQty
                      = FirstPositive(PackQtysOf(RecordsOfKey(MergedSoFar, key)))

\* C14, its case: the records of a key come with no pack quantity, then with
\* 2, then with 3, and the pack quantity of the key is 2
C14_Witness ==
    /\ bpc = "done"
    /\ PackQtysOf(RecordsOfKey(allRecords, "12345678|Widget")) = << 0, 2, 3 >>
    /\ mergedDict["12345678|Widget"].PackQty = 2

\* the keys of a list of records, in its order
KeysOf(records) == [k \in 1..Len(records) |-> MergeKey(records[k])]

\* a list of files without those that raise
Processable(fs) == SelectSeq(fs, LAMBDA file : file.raises = "none")

RECURSIVE ConcatRecords(_)
\* the records of a list of files, files in the order of the list and the
\* items of a file in the order of the parser
ConcatRecords(fs) ==
    IF Len(fs) = 0 THEN << >> ELSE RecordsOf(Head(fs)) \o ConcatRecords(Tail(fs))

\* the records of the files that raise nothing
RecordsInOrder(fs) == ConcatRecords(Processable(fs))

\* the values of a list without its repeats, each at its first place
FirstSeen(seq) ==
    SelectSeq([k \in 1..Len(seq) |->
                   IF \E j \in 1..(k - 1) : seq[j] = seq[k] THEN << >> ELSE << seq[k] >>],
              LAMBDA v : v # << >>)

\* C15: when the workbook is written there is one merged record for each
\* pair of SKU and style of the items of the files, and no other; the rows
\* of the workbook are these records in the order in which their pairs first
\* come up, files in input order and items in the order of the parser.
C15_OneRowPerKeyFirstSeen ==
    bpc = "done"
        => /\ DOMAIN mergedDict
                  = { ItemAt(pl).SKU \o "|" \o ItemAt(pl).MFGStyle : pl \in Places }
           /\ [k \in 1..Len(keysOrder) |-> << keysOrder[k] >>]
                  = FirstSeen(KeysOf(RecordsInOrder(files)))
           /\ Len(workbook.rows) = Len(keysOrder)
           /\ \A k \in 1..Len(keysOrder) :
                  /\ workbook.rows[k].SKU \o "|" \o workbook.rows[k].MFGStyle = keysOrder[k]
                  /\ workbook.rows[k] = RowOf(mergedDict[keysOrder[k]], workbook.uniquePOs)
           /\ \A j, k \in 1..Len(keysOrder) : j # k => keysOrder[j] # keysOrder[k]

\* C15, its case: the pairs come up as Widget of 12345678, Plain of 12345678,
\* Widget again twice and then Widget of 23456789, and the workbook has three
\* rows in the order of the first places
C15_Witness ==
    /\ bpc = "done"
    /\ Len(files) = 2
    /\ files[1].name = "c.pdf"
    /\ files[2].name = "b.pdf"
    /\ Len(allRecords) = 4
    /\ Len(workbook.rows) = 3
    /\ workbook.rows[2].MFGStyle = "Plain"
    /\ workbook.rows[3].SKU = "23456789"

\* the rows of the workbook with a SKU, and those with a SKU and a style
RowsOfSku(sku) == { k \in 1..Len(workbook.rows) : workbook.rows[k].SKU = sku }
RowsOfPair(sku, style) ==
    { k \in RowsOfSku(sku) : workbook.rows[k].MFGStyle = style }

\* the row k has taken in the record of the item at a place
RowHolds(k, pl) == files[pl[1]].name \in workbook.rows[k].Sources

RECURSIVE MergedAfter(_, _)
\* mergedDict after the merge loop has run over a list of records
MergedAfter(records, dict) ==
    IF Len(records) = 0 THEN dict
    ELSE MergedAfter(Tail(records), MergeRecord(dict, Head(records)))

RECURSIVE OrderAfter(_, _, _)
\* keysOrder after the merge loop has run over a list of records
OrderAfter(records, dict, order) ==
    IF Len(records) = 0 THEN order
    ELSE OrderAfter(Tail(records), MergeRecord(dict, Head(records)),
                    KeysOrderAfter(dict, order, Head(records)))

\* C17: a file that raises is passed over and the loop goes on with the next
\* file: after every pass the records collected are those of the files gone
\* through with the raising files taken out, in input order; the merged
\* records, their order, the PO columns and the rows of the workbook are
\* those that the batch without its raising files gives.
C17_FailingFileSkipped ==
    /\ bpc = "files"
           => allRecords = ConcatRecords(Processable(SubSeq(files, 1, fileIdx)))
    /\ bpc \in { "merge", "done" } => allRecords = ConcatRecords(Processable(files))
    /\ bpc = "done"
           => /\ fileIdx = Len(files)
              /\ mergedDict = MergedAfter(ConcatRecords(Processable(files)), << >>)
              /\ keysOrder = OrderAfter(ConcatRecords(Processable(files)), << >>, << >>)
              /\ workbook.uniquePOs = UniquePOs(ConcatRecords(Processable(files)))
              /\ workbook.rows
                     = WorkbookOf(firstMetadata, ConcatRecords(Processable(files)),
                                  MergedAfter(ConcatRecords(Processable(files)), << >>),
                                  OrderAfter(ConcatRecords(Processable(files)), << >>, << >>)).rows

\* C17, its case: the second of three files raises, and the workbook has the
\* records of the first and of the third
C17_Witness ==
    /\ bpc = "done"
    /\ Len(files) = 3
    /\ files[1].name = "a.pdf"
    /\ files[2].raises = "extractPdfText"
    /\ files[3].name = "b.pdf"
    /\ Len(allRecords) = 3
    /\ workbook.rows[1].Sources = { "a.pdf", "b.pdf" }

\* no file of the batch gives an item: each raises or has an empty table
NoItemAnywhere == \A f \in 1..Len(files) : files[f].raises # "none" \/ files[f].items = << >>

\* C18: the batch ends with the error exactly when no file gives an item,
\* the files that raise among them, and then there is no workbook; it ends
\* with a workbook exactly when some file gives an item; the error and the
\* workbook come only when every file has been gone through.
C18_ErrorIffNoItems ==
    /\ bpc = "thrown" => fileIdx = Len(files) /\ NoItemAnywhere /\ workbook = Null
    /\ bpc \in { "merge", "done" } => fileIdx = Len(files) /\ ~NoItemAnywhere
    /\ bpc = "done" => workbook # Null /\ Len(workbook.rows) >= 1
    /\ bpc # "done" => workbook = Null

\* C18, its case: a batch of a file that raises, a file with an empty table
\* and another file that raises has ended with the error
C18_Witness ==
    /\ bpc = "thrown"
    /\ Len(files) = 3
    /\ files[1].raises = "arrayBuffer"
    /\ files[2].name = "e.pdf"
    /\ files[3].raises = "getPoMetadata"
    /\ workbook = Null

(***************************************************************************)
(* Termination of parseSkuTable.                                           *)
(***************************************************************************)
\* a pass of a scanning loop that stays in its loop moves the index of the
\* loop forward, and not beyond the end of the lines
LoopAdvances ==
    /\ (pc = "s1" /\ pc' = "s1") => (idx' > idx /\ idx' <= Len(lines))
    /\ (pc \in { "s2", "s3", "s4" } /\ pc' = pc) => (i' > i /\ i' <= Len(lines))

\* the fields that the patterns fill are texts, empty when nothing matched
FieldsDefined(item) ==
    \A f \in { "SKU", "MFGStyle", "MFGColor", "SizeDesc", "Description",
               "CostUnit", "Retail", "PackQty", "Qty" } :
        item[f] # Undefined

\* the positions of parseSkuTable in the order in which it goes through them
Stages == << "locate", "gate1", "s1", "gate2", "s2", "gate3", "s3", "gate4", "s4", "filter", "done" >>

\* the number of positions behind the position p
StagesLeft(p) == Len(Stages) - LeastOr({ k \in 1..Len(Stages) : Stages[k] = p }, Len(Stages))

\* the number of lines that the loop of the position has not gone over; the
\* number of lines and one more at a position outside the loops, and 0 when
\* parseSkuTable has returned
LinesLeft ==
    IF pc = "s1" THEN Len(lines) - idx
    ELSE IF pc \in { "s2", "s3", "s4" } THEN Len(lines) - i
    ELSE IF pc = "done" THEN 0
    ELSE Len(lines) + 1

\* a bound on the number of steps that parseSkuTable has left
StepsLeft == StagesLeft(pc) * (Len(lines) + 2) + LinesLeft

\* C19: parseSkuTable returns on every document.  Every pass of a scanning
\* loop that stays in the loop moves its index forward, the pass of
\* Strategy 2 that sets the index to j - 1 and the pass of Strategy 4 that
\* sets it to the price line among them, so every step lowers a bound on
\* the number of steps left, which is a natural number and is 0 when the
\* list is returned; every field of every item is a text, empty when its
\* pattern matched nothing.
C19_TerminatesAdvancing ==
    /\ [][LoopAdvances /\ StepsLeft' < StepsLeft]_vars
    /\ [](StepsLeft >= 0 /\ (StepsLeft = 0 <=> Returned))
    /\ [](\A k \in 1..Len(items) : FieldsDefined(items[k]))

\* C19, its case: Strategy 4 has pushed an item whose SKU line is two lines
\* or more before its price line, has set its index to the price line, and
\* parseSkuTable has returned
C19_Witness ==
    /\ Returned
    /\ \E m \in 1..Len(items) :
           /\ origin[m] = 4
           /\ \E n \in (headerIdx + 1)..(Len(lines) - 3) :
                  /\ SkuLead(LineAt(lines, n)).ok
                  /\ SkuOf(LineAt(lines, n), SkuLead(LineAt(lines, n))) = items[m].SKU
                  /\ ~Search(ReDollarDigit, LineAt(lines, n + 1)).ok
                  /\ Search(ReDollarDigit, LineAt(lines, n + 2)).ok

(***************************************************************************)
(* The Apps Script web app (GoogleAppsScript_Template.example.gs).  A      *)
(* request is the event object e that doGet or doPost is called with: it   *)
(* may be missing, or lack its parameter object, and a parameter that the  *)
(* request does not carry is Undefined.  What a handler finds in Drive is  *)
(* not modelled: a handler that runs replies with success or with an       *)
(* error, and the kinds of Drive operation in its code are recorded.       *)
(***************************************************************************)
\* line 32
AUTHORIZED_API_KEY == "YOUR_API_KEY_HERE"

\* lines 607-614
success(data) == [isNull |-> FALSE, success |-> TRUE, data |-> data, error |-> ""]

\* lines 619-626
error(message) == [isNull |-> FALSE, success |-> FALSE, data |-> "", error |-> message]

\* a variant of verifyAuthentication that tests the request for its
\* parameters and not for its key, against which property C20 is tested
verifyParametersOnly(e) ==
    IF ~e.present \/ ~e.hasParameter
    THEN error("Unauthorized: Missing request parameters")
    ELSE Null

\* lines 34-43
verifyAuthentication(e) ==
    IF ~e.present \/ ~e.hasParameter
    THEN error("Unauthorized: Missing request parameters")
    ELSE IF OrElse(e.apiKey, e.api_key) # AUTHORIZED_API_KEY
    THEN error("Unauthorized: Invalid or missing API key")
    ELSE Null

\* lines 65-83: the handler of an action of doGet, "none" for an action that
\* doGet does not know
GetHandler(action) ==
    IF action = "status" THEN "getStatus"
    ELSE IF action = "list-customer-pdfs" THEN "listCustomerPDFs"
    ELSE IF action = "list-vendor-data" THEN "listVendorData"
    ELSE IF action = "download-vendor-file" THEN "downloadVendorFile"
    ELSE IF action = "download-customer-data-only" THEN "downloadLatestCustomerDataOnly"
    ELSE IF action = "download" THEN "downloadFile"
    ELSE IF action = "archive-pdfs" THEN "archiveProcessedPDFsFromGet"
    ELSE "none"

\* lines 97-105: the handler of an action of doPost
PostHandler(action) ==
    IF action = "process-order" THEN "processOrder"
    ELSE IF action = "upload-processed-customer-data" THEN "uploadProcessedCustomerData"
    ELSE IF action = "upload-merged-customer-vendor-data" THEN "uploadMergedCustomerVendorData"
    ELSE "none"

\* the kinds of Drive operation in the code of a handler
DriveOps(name) ==
    IF name \in { "uploadProcessedCustomerData", "uploadMergedCustomerVendorData" }
    THEN { "read", "create" }
    ELSE IF name = "archiveProcessedPDFsFromGet" THEN { "read", "move" }
    ELSE IF name = "none" THEN {}
    ELSE { "read" }

\* the replies of a handler that runs: its result, its own error, or the
\* error that doGet and doPost make of what it raises
HandlerReplies(name) == { success(name), error("Error: " \o name), error("Server error: " \o name) }

\* the keys and the actions that the requests are made of
RequestKeys == { Undefined, "", AUTHORIZED_API_KEY, "your_api_key_here", "wrong-key" }

RequestActions ==
    { Undefined, "", "status", "list-customer-pdfs", "list-vendor-data",
      "download-vendor-file", "download-customer-data-only", "download", "archive-pdfs",
      "process-order", "upload-processed-customer-data",
      "upload-merged-customer-vendor-data", "delete-all" }

Request(method, present, hasParameter, apiKey, api_key, action) ==
    [isNull |-> FALSE, method |-> method, present |-> present, hasParameter |-> hasParameter,
     apiKey |-> apiKey, api_key |-> api_key, action |-> action]

Requests ==
    { Request(m, FALSE, FALSE, Undefined, Undefined, Undefined) : m \in { "GET", "POST" } }
        \cup { Request(m, TRUE, FALSE, Undefined, Undefined, Undefined) : m \in { "GET", "POST" } }
        \cup { Request(m, TRUE, TRUE, k1, k2, a) :
                 m \in { "GET", "POST" }, k1 \in RequestKeys, k2 \in RequestKeys,
                 a \in RequestActions }

ScriptInit ==
    /\ ParserIdle
    /\ PriceIdle
    /\ BatchIdle
    /\ AppIdle
    /\ request \in Requests
    /\ spc = "called"
    /\ response = Null
    /\ handler = "none"
    /\ drive = {}

\* lines 60-86 and 90-108 behind the test of the key: the handler of the
\* action runs and replies, or the action is not known
Dispatch(name, unknown) ==
    IF name = "none"
    THEN /\ response' = error(unknown)
         /\ handler' = "none"
         /\ drive' = {}
    ELSE /\ response' \in HandlerReplies(name)
         /\ handler' = name
         /\ drive' = DriveOps(name)

\* lines 59-87
doGet ==
    /\ spc = "called"
    /\ request.method = "GET"
    /\ \E authError \in { verifyAuthentication(request) } :
           IF ~authError.isNull
           THEN /\ response' = authError
                /\ handler' = "none"
                /\ drive' = {}
           ELSE Dispatch(GetHandler(OrElse(request.action, "status")),
                         "Unknown action: " \o OrElse(request.action, "status"))
    /\ spc' = "replied"
    /\ UNCHANGED << parserVars, priceVars, batchVars, appVars, request >>

\* lines 89-109
doPost ==
    /\ spc = "called"
    /\ request.method = "POST"
    /\ \E authError \in { verifyAuthentication(request) } :
           IF ~authError.isNull
           THEN /\ response' = authError
                /\ handler' = "none"
                /\ drive' = {}
           ELSE Dispatch(PostHandler(OrElse(request.action, "")),
                         "Unknown POST action: " \o OrElse(request.action, ""))
    /\ spc' = "replied"
    /\ UNCHANGED << parserVars, priceVars, batchVars, appVars, request >>

ScriptNext ==
    \/ doGet
    \/ doPost

ScriptSpec == ScriptInit /\ [][ScriptNext]_vars

(***************************************************************************)
(* Properties of the web app.                                              *)
(***************************************************************************)
\* the reply is an Unauthorized error
Unauthorized ==
    /\ ~response.isNull
    /\ ~response.success
    /\ Len(response.error) >= 12
    /\ SubSeq(response.error, 1, 12) = "Unauthorized"

\* no handler was run and Drive was not touched
NothingRan == handler = "none" /\ drive = {}

\* the key that the request gives: its apiKey, and its api_key when it has
\* no apiKey or an empty one
GivenKey ==
    IF ~request.present \/ ~request.hasParameter THEN Undefined
    ELSE IF request.apiKey \notin { Undefined, "" } THEN request.apiKey
    ELSE request.api_key

\* C20 as it is worded: a request whose apiKey is missing or is not the
\* authorized key gets an Unauthorized error and no handler runs.  The web
\* app does not behave so: a request without apiKey whose api_key is the
\* authorized key is let through.
C20_ApiKeyOnly ==
    (spc = "replied" /\ request.apiKey # AUTHORIZED_API_KEY)
        => Unauthorized /\ NothingRan

\* C20: a request to doGet or doPost whose key, apiKey or api_key when
\* apiKey is missing or empty, is missing or is not the authorized key gets
\* an Unauthorized error, no handler runs and Drive is not touched; a
\* request with the authorized key does not get an Unauthorized error.
C20_KeyVerified ==
    spc = "replied"
        => IF GivenKey # AUTHORIZED_API_KEY
           THEN Unauthorized /\ NothingRan
           ELSE ~Unauthorized

\* C20, its case: a request to doGet for archive-pdfs with a key that
\* differs from the authorized key in the case of its letters has got the
\* Unauthorized error, and nothing was moved
C20_Witness ==
    /\ spc = "replied"
    /\ request.method = "GET"
    /\ request.apiKey = "your_api_key_here"
    /\ request.api_key = AUTHORIZED_API_KEY
    /\ request.action = "archive-pdfs"
    /\ response = error("Unauthorized: Invalid or missing API key")
    /\ NothingRan

(***************************************************************************)
(* Properties of the strategies of parseSkuTable, one by one.              *)
(***************************************************************************)
\* the indices behind the header of the lines that are a bare SKU
BareSkuLines == { k \in (headerIdx + 1)..(Len(lines) - 1) : BareSkuLine(k) }

\* C21 as the specification words it: every bare SKU line behind the header
\* is the SKU of an item of Strategy 1, also behind a page marker, a total
\* label or a label of the number of packs ordered.  The parser does not
\* behave so: its outer loop ends at the first line, behind a block, that is
\* neither a pack letter nor a bare SKU.
C21_EveryBareSkuLine ==
    (Returned /\ headerIdx # -1)
        => \A k \in BareSkuLines :
               \E m \in 1..Len(items) : origin[m] = 1 /\ items[m].SKU = LineAt(lines, k)

\* the line of the SKU of the m-th item of Strategy 1: the m-th bare SKU
\* line behind the header
SkuLineOf(m) ==
    CHOOSE k \in BareSkuLines : Cardinality({ j \in BareSkuLines : j < k }) = m - 1

\* a line at which a stacked block ends
StopsBlock(text) ==
    \/ IsBareSku(text)
    \/ MatchStart(ReNumberOfPacksOrdered, text).ok
    \/ IsNumberOfPacksOnly(text)
    \/ IsTotalCostQty(text)
    \/ MatchStart(RePage, text).ok

\* the index of the line that ends the block of the SKU line s
BlockEnd(s) ==
    LeastOr({ k \in (s + 1)..(Len(lines) - 1) : StopsBlock(Trim(LineAt(lines, k))) },
            Len(lines))

NonEmptyText(text) == text # ""

\* the non-empty lines of the block of the m-th item of Strategy 1, trimmed
BlockOf(m) ==
    SelectSeq([k \in 1..(BlockEnd(SkuLineOf(m)) - SkuLineOf(m) - 1) |->
                   Trim(LineAt(lines, SkuLineOf(m) + k))],
              NonEmptyText)

\* the shapes of a line of a block
PriceShaped(text) == ~isUpc(text) /\ isPrice(text)

QuantityShaped(text) == ~isUpc(text) /\ ~isPrice(text) /\ isSmallQty(text)

OtherShaped(text) == ~isUpc(text) /\ ~isPrice(text) /\ ~isSmallQty(text)

NotUpc(text) == ~isUpc(text)

\* the k-th member of a sequence, "" where it has none
NthOrEmpty(sq, k) == IF k \in 1..Len(sq) THEN sq[k] ELSE ""

\* the number a collected quantity line stands for, as a text
AsQuantity(text) == IF text = "" THEN "" ELSE NumToString(ParseInt(text))

\* an item holds the texts assigned positionally, the prices and the
\* quantities collected
HoldsCollected(item, texts, prices, quantities) ==
    /\ item.MFGStyle = NthOrEmpty(texts, 1)
    /\ item.MFGColor = NthOrEmpty(texts, 2)
    /\ item.SizeDesc = NthOrEmpty(texts, 3)
    /\ item.Description = Join(SubSeq(texts, 4, Len(texts)), " ")
    /\ item.CostUnit = NthOrEmpty(prices, 1)
    /\ item.Comp = NthOrEmpty(prices, 2)
    /\ item.Retail = NthOrEmpty(prices, 3)
    /\ item.PackQty = AsQuantity(NthOrEmpty(quantities, 1))
    /\ item.Qty = AsQuantity(NthOrEmpty(quantities, IF Len(quantities) >= 3 THEN 3
                                                      ELSE Len(quantities)))

\* the items of Strategy 1
StackedItems == { m \in 1..Len(items) : origin[m] = 1 }

\* C22 as the specification words it: at return every line of a stacked block is
\* classified by its shape alone, wherever in the block it stands: price
\* lines are the prices, small integers the quantities, and all other lines
\* but UPC lines are assigned to style, color, size and description.
C22_ShapeAlone ==
    Returned =>
    \A m \in StackedItems :
        HoldsCollected(items[m],
                       SelectSeq(BlockOf(m), OtherShaped),
                       SelectSeq(BlockOf(m), PriceShaped),
                       SelectSeq(BlockOf(m), QuantityShaped))

\* the number of lines of a block that stand before its first price line
BeforeFirstPrice(b) ==
    LeastOr({ k \in 1..Len(b) : PriceShaped(b[k]) }, Len(b) + 1) - 1

\* C22: at return, in a stacked block a UPC line is skipped and a price line is
\* collected wherever it stands; a line of any other shape, a small integer
\* included, is assigned positionally (style, color, size, then joined onto
\* the description) when it stands before the first price line; behind the
\* first price line a small integer is collected as a quantity and every
\* other line is dropped.
C22_ShapeAndPlace ==
    Returned =>
    \A m \in StackedItems :
        HoldsCollected(items[m],
                       SelectSeq(SubSeq(BlockOf(m), 1, BeforeFirstPrice(BlockOf(m))), NotUpc),
                       SelectSeq(BlockOf(m), PriceShaped),
                       SelectSeq(SubSeq(BlockOf(m), BeforeFirstPrice(BlockOf(m)) + 1,
                                        Len(BlockOf(m))),
                                 QuantityShaped))

\* C22 witness: an item of Strategy 1 whose block has a small integer
\* before its first price line and a text line behind it
C22_Witness ==
    /\ Returned
    /\ \E m \in StackedItems :
           /\ \E k \in 1..BeforeFirstPrice(BlockOf(m)) : QuantityShaped(BlockOf(m)[k])
           /\ \E k \in (BeforeFirstPrice(BlockOf(m)) + 2)..Len(BlockOf(m)) :
                  OtherShaped(BlockOf(m)[k])

\* the items of Strategy 3
CompressedItems == { m \in 1..Len(items) : origin[m] = 3 }

\* the text behind the SKU of line k, trimmed
AfterSkuAt(k) == Trim(AfterSkuOf(LineAt(lines, k), SkuLead(LineAt(lines, k))))

\* line k starts with the SKU sku and carries a price behind it
PricedRowOf(k, sku) ==
    /\ SkuLead(LineAt(lines, k)).ok
    /\ SkuOf(LineAt(lines, k), SkuLead(LineAt(lines, k))) = sku
    /\ Len(MatchAll(RePrice, AfterSkuAt(k))) > 0

\* the line of the m-th item, an item of Strategy 3: the first priced row
\* of its SKU behind the header
RowLineOf(m) ==
    LeastOr({ k \in (headerIdx + 1)..(Len(lines) - 1) : PricedRowOf(k, items[m].SKU) }, -1)

\* the text left of the first price of the row of the m-th item
RowLeftOf(m) ==
    Trim(Slice(AfterSkuAt(RowLineOf(m)), 0,
               MatchAll(RePrice, AfterSkuAt(RowLineOf(m)))[1].index))

\* the text right of the last price of the row of the m-th item
RowRightOf(m) ==
    Trim(SliceFrom(AfterSkuAt(RowLineOf(m)),
                   LastPriceEnd(AfterSkuAt(RowLineOf(m)),
                                MatchAll(RePrice, AfterSkuAt(RowLineOf(m))), 1, 0)))

\* what follows style and color in a left text, trimmed
AfterStyleColor(left) == Trim(SplitStyleColor(left).rest)

\* a left text whose size is a word ending in SIZE and no dimension
WordSized(left) ==
    /\ ~LeftSizeMatch(AfterStyleColor(left)).ok
    /\ MatchStart(ReWordSize, AfterStyleColor(left)).ok

\* an item holds the fields of the left-side parse l, its pack quantity
\* falling back on packQty
HoldsLeft(item, l, packQty) ==
    /\ item.MFGStyle = l.style
    /\ item.MFGColor = l.color
    /\ item.SizeDesc = l.sizeDesc
    /\ item.Description = l.description
    /\ item.PackQty = OrElse(l.packQtyFromLeft, packQty)

\* C23 as the specification words it: at return every item of Strategy 3
\* holds the style, color, size, pack quantity and description that the
\* left-side parser of the inline-price case of Strategy 2 returns for the
\* text left of its first price, a size that is a word ending in SIZE
\* included.
C23_SameLeftParse ==
    Returned =>
    \A m \in CompressedItems :
        HoldsLeft(items[m], InlineLeftSide(RowLeftOf(m)), parseQuantities(RowRightOf(m)).packQty)

\* C23: at return every item of Strategy 3 holds what the left-side parser
\* of the inline-price case of Strategy 2 returns for the text left of its
\* first price, unless that parser finds a size that is a word ending in
\* SIZE: then the two agree on style and color only, the item of Strategy 3
\* has no size and no pack quantity from the left text, and the size words
\* and all that follows them are its description.
C23_SameLeftButWordSize ==
    Returned =>
    \A m \in CompressedItems :
        IF WordSized(RowLeftOf(m))
        THEN HoldsLeft(items[m],
                       [InlineLeftSide(RowLeftOf(m)) EXCEPT
                           !.sizeDesc = "",
                           !.description = AfterStyleColor(RowLeftOf(m)),
                           !.packQtyFromLeft = ""],
                       parseQuantities(RowRightOf(m)).packQty)
        ELSE HoldsLeft(items[m], InlineLeftSide(RowLeftOf(m)),
                       parseQuantities(RowRightOf(m)).packQty)

\* C23 witness: Strategy 3 has made an item of a row whose size is a word
\* ending in SIZE
C23_Witness ==
    /\ Returned
    /\ \E m \in CompressedItems :
           /\ WordSized(RowLeftOf(m))
           /\ InlineLeftSide(RowLeftOf(m)).sizeDesc = "NO SIZE"
           /\ items[m].SizeDesc = ""

\* the digits of the text right of the last price of the row of the m-th
\* item, when that text is one token
RunOf(m) == KeepDigits(SplitWs(RowRightOf(m))[1])

\* the text right of the last price is one glued run of four or more digits
GluedRun(m) ==
    /\ RowLineOf(m) # -1
    /\ Len(SplitWs(RowRightOf(m))) = 1
    /\ Len(RunOf(m)) >= 4

\* the split of the digit run d behind a pack quantity of p digits: the
\* rest is halved into totalPacks and qty
SplitAt(d, p) ==
    [packQty |-> Slice(d, 0, p),
     totalPacks |-> Slice(d, p, p + (Len(d) - p) \div 2),
     qty |-> SliceFrom(d, p + (Len(d) - p) \div 2)]

\* the arithmetic check: qty is totalPacks times packQty
ChecksOut(sp) ==
    /\ sp.totalPacks # ""
    /\ ParseInt(sp.qty) = ParseInt(sp.totalPacks) * ParseInt(sp.packQty)

\* C24 as the specification words it: at return, for an item of Strategy 3
\* whose text right of the last price is one glued run of four or more
\* digits, either the item holds the first split, trying one digit of pack
\* quantity before two, that passes the arithmetic check qty = totalPacks
\* times packQty, or no split passes and the item's qty is the whole run and
\* the run yields no pack quantity.
C24_SplitChecked ==
    Returned =>
    \A m \in CompressedItems :
        GluedRun(m) =>
            \/ /\ \A p \in 1..2 : ~ChecksOut(SplitAt(RunOf(m), p))
               /\ items[m].Qty = RunOf(m)
               /\ items[m].PackQty = parseLeftSide(RowLeftOf(m)).packQtyFromLeft
            \/ \E p \in 1..2 :
                   /\ ChecksOut(SplitAt(RunOf(m), p))
                   /\ \A r \in 1..(p - 1) : ~ChecksOut(SplitAt(RunOf(m), r))
                   /\ items[m].Qty = SplitAt(RunOf(m), p).qty
                   /\ items[m].PackQty = OrElse(parseLeftSide(RowLeftOf(m)).packQtyFromLeft,
                                                SplitAt(RunOf(m), p).packQty)

\* the items of Strategy 2
BlockItems == { m \in 1..Len(items) : origin[m] = 2 }

\* the first line behind the header that starts with the SKU sku
FirstLineOfSku(sku) ==
    LeastOr({ k \in (headerIdx + 1)..(Len(lines) - 1) :
                /\ SkuLead(LineAt(lines, k)).ok
                /\ SkuOf(LineAt(lines, k), SkuLead(LineAt(lines, k))) = sku }, -1)

\* a line over which both look-aheads of Strategy 2 pass: a UPC line or a
\* line that carries a price
PassedOver(text) ==
    /\ ~Search(ReNumPacksFull, text).ok
    /\ MatchStart(ReUpcPrefix, text).ok \/ Search(ReDollarDigit, text).ok

\* the lines, at most three behind line k, that carry a label 'number of
\* packs ordered: N units: M' and are reached from line k over UPC and price
\* lines only
LabelLinesAfter(k) ==
    { j \in (k + 1)..MinOf(k + 3, Len(lines) - 1) :
        /\ Search(ReNumPacksFull, LineAt(lines, j)).ok
        /\ \A h \in (k + 1)..(j - 1) : PassedOver(LineAt(lines, h)) }

\* the M and the N times M of the label of line j
LabelUnits(j) == FullM(LineAt(lines, j), Search(ReNumPacksFull, LineAt(lines, j)))

LabelTotal(j) ==
    Times(FullN(LineAt(lines, j), Search(ReNumPacksFull, LineAt(lines, j))), LabelUnits(j))

\* C25 as the specification words it: at return every item of Strategy 2,
\* of the inline-price and of the deferred-price case alike, whose
\* look-ahead finds a label 'number of packs ordered: N units: M' has the
\* pack quantity M and the quantity N times M, whatever was inferred from
\* the SKU line or from the digits behind the prices.
C25_LabelOverrides ==
    Returned =>
    \A m \in BlockItems :
        \A j \in LabelLinesAfter(FirstLineOfSku(items[m].SKU)) :
            /\ items[m].PackQty = LabelUnits(j)
            /\ items[m].Qty = LabelTotal(j)

\* the items of Strategy 4
DistantItems == { m \in 1..Len(items) : origin[m] = 4 }

\* a label 'number of packs ordered: N units: M' at the start of line j
FullLabelAt(j) == j < Len(lines) /\ MatchStart(ReNumPacksFull, Trim(LineAt(lines, j))).ok

\* the row of the SKU sku has its data on the SKU line k and its prices on
\* line k + 1 alone: the price scan ends on line k + 2, at a label or at the
\* end of the document
OnePriceLine(k) ==
    /\ k # -1
    /\ AfterSkuAt(k) # ""
    /\ k + 1 < Len(lines)
    /\ Search(ReDollarDigit, LineAt(lines, k + 1)).ok
    /\ k + 2 = Len(lines) \/ FullLabelAt(k + 2)

\* the price text of a single price line after the clean-up of line 1097
CleanPriceText(line) == SpaceAfterCents(Trim(" " \o Trim(line)), 0)

\* the digit run that is left when the matched prices are taken out of the
\* clean price text c
LeftoverDigits(c) == KeepDigits(RemovePrices(c, c, MatchAll(RePrice, c), 1))

\* the leftover digit run of the row of line k
RunAfter(k) == LeftoverDigits(CleanPriceText(LineAt(lines, k + 1)))

\* the last half of a digit run, the middle digit of a run of odd length
\* counted to either half
TailHalves(run) ==
    { SliceFrom(run, Len(run) \div 2), SliceFrom(run, (Len(run) + 1) \div 2) }

PricesIn(text) == NormalizedPrices(text, MatchAll(RePrice, text))

\* the items whose recognised prices the document shows directly: those of
\* Strategy 1, those of a priced row of Strategies 2 and 3, and those of
\* Strategy 4 whose prices are on one line
PricesShown(m) ==
    \/ origin[m] = 1
    \/ origin[m] \in {2, 3} /\ RowLineOf(m) # -1
    \/ origin[m] = 4 /\ OnePriceLine(FirstLineOfSku(items[m].SKU))

\* the prices recognised for the m-th item, in order
PricesOf(m) ==
    IF origin[m] = 1 THEN SelectSeq(BlockOf(m), PriceShaped)
    ELSE IF origin[m] = 4
    THEN PricesIn(CleanPriceText(LineAt(lines, FirstLineOfSku(items[m].SKU) + 1)))
    ELSE PricesIn(AfterSkuAt(RowLineOf(m)))

\* C30 as the specification words it: at return, whichever strategy made
\* an item, its cost is the first recognised price, its comp the second and
\* its retail the third, so that an item with two recognised prices has the
\* second as comp and an empty retail.
C30_SamePriceFields ==
    Returned =>
    \A m \in 1..Len(items) :
        PricesShown(m) =>
            /\ items[m].CostUnit = PriceOr(PricesOf(m), 1)
            /\ Len(PricesOf(m)) >= 2 => items[m].Comp = PricesOf(m)[2]
            /\ items[m].Retail = PriceOr(PricesOf(m), 3)

\* C30: at return the cost of every item is its first recognised price.  An
\* item of Strategy 1 or 2 has the second price as comp and the third as
\* retail, so with two prices its retail is empty.  An item of Strategy 3
\* or 4 has no comp field, and its retail is the third price or, when
\* exactly two prices were recognised, the second.
C30_PriceFieldsByStrategy ==
    Returned =>
    \A m \in 1..Len(items) :
        PricesShown(m) =>
            /\ items[m].CostUnit = PriceOr(PricesOf(m), 1)
            /\ origin[m] \in {1, 2} =>
                   /\ items[m].Comp = PriceOr(PricesOf(m), 2)
                   /\ items[m].Retail = PriceOr(PricesOf(m), 3)
            /\ origin[m] \in {3, 4} =>
                   /\ items[m].Comp = Undefined
                   /\ items[m].Retail = IF Len(PricesOf(m)) = 2 THEN PricesOf(m)[2]
                                        ELSE PriceOr(PricesOf(m), 3)

\* C30 witness: an item of Strategy 3 or 4 with exactly two recognised
\* prices, the second of which is its retail
C30_Witness ==
    /\ Returned
    /\ \E m \in 1..Len(items) :
           /\ origin[m] \in {3, 4}
           /\ PricesShown(m)
           /\ Len(PricesOf(m)) = 2
           /\ items[m].Retail = PricesOf(m)[2]

(***************************************************************************)
(* Conservation of quantity by the merge.                                  *)
(***************************************************************************)
RECURSIVE SumStored(_, _)
\* the sum of the quantities stored for the PO numbers S
SumStored(quantities, S) ==
    IF S = {} THEN 0
    ELSE quantities[CHOOSE po \in S : TRUE]
             + SumStored(quantities, S \ { CHOOSE po \in S : TRUE })

\* C29 as the specification words it: when the merge is done, for every key
\* the quantities stored per PO number add up to the sum of the quantities
\* of all items with that key in all processed files, those of a file
\* without a PO number included.  The merge does not behave so: it adds a
\* quantity only under a PO number that is not empty.
C29_QuantityConserved ==
    bpc = "done"
        => \A key \in DOMAIN mergedDict :
               SumStored(mergedDict[key].PO_Quantities,
                         DOMAIN mergedDict[key].PO_Quantities)
                   = SumQty(PlacesOfKey(mergedDict[key].SKU, mergedDict[key].MFGStyle))

(***************************************************************************)
(* The browser app (app.js).  A workflow is one run of an event handler:   *)
(* the change handler of the folder input, entered from the customer or    *)
(* the combined button, or the click handler of the vendor button.  A      *)
(* handler runs without interruption up to its next await; each action     *)
(* below is one such run, from the event or the settled promise that       *)
(* resumes the handler to the await at which it stops or to its end.  What *)
(* the converters compute is not modelled: a conversion, a merge or a      *)
(* download resolves or fails.  The upload is answered by doPost of the    *)
(* web app, whose reply is a text output, served with the status 200       *)
(* whether it was made by success() or by error(); a request that does not *)
(* reach doPost fails with another status or with a network error.  The    *)
(* status texts are written without their leading check mark.  The change  *)
(* handler of the vendor data input is left out: no code of the app opens  *)
(* that input.                                                             *)
(***************************************************************************)
AllDisabled == [customerBtn |-> TRUE, vendorBtn |-> TRUE, combinedBtn |-> TRUE]

AllEnabled == [customerBtn |-> FALSE, vendorBtn |-> FALSE, combinedBtn |-> FALSE]

\* generateTimestamp (lines 24-33) at the second t of the clock
generateTimestamp(t) == "20260101_12000" \o NumToString(t)

\* the seconds that the clock may show at the next reading
Later == { t \in now..MaxSeconds : t <= now + 1 }

\* lines 72-76
showStatus(message, type) == [text |-> message, type |-> type]

\* a blob made by workflow w, of the customer data or of the merged data
Blob(w, merged) == [isNull |-> FALSE, by |-> w, merged |-> merged]

\* the folder and the number of files of the selection
ParentFolderName == "Bealls"
FileCount == "2"

\* lines 298 and 351
CustomerDataFileName(timestamp) ==
    ParentFolderName \o "_" \o FileCount \o "_" \o timestamp \o ".xlsx"

\* the names that the latest customer data file of Drive may have
CustomerFileNames ==
    { "Bealls_2_20260101_120000.xlsx", "Bealls_20260101_120000.xlsx", "Bealls_1700000000.xlsx",
      "data.xlsx" }

\* s.split('_')
RECURSIVE SplitUnderscore(_)
SplitUnderscore(s) ==
    IF ~Includes(s, "_") THEN << s >>
    ELSE << Slice(s, 0, IndexOfFrom(s, "_", 0)) >>
             \o SplitUnderscore(SliceFrom(s, IndexOfFrom(s, "_", 0) + 1))

\* lines 577-602: folder, file count and timestamp taken from the parts of
\* the name of the customer file, fallback is a fresh timestamp
NamingOf(nameParts, fallback) ==
    IF Len(nameParts) >= 4
    THEN [parentFolderName |-> nameParts[1], fileCount |-> nameParts[2],
          timestamp |-> nameParts[3] \o "_" \o nameParts[4]]
    ELSE IF Len(nameParts) = 3
    THEN [parentFolderName |-> nameParts[1], fileCount |-> "",
          timestamp |-> nameParts[2] \o "_" \o nameParts[3]]
    ELSE IF Len(nameParts) = 2
    THEN [parentFolderName |-> nameParts[1], fileCount |-> "", timestamp |-> nameParts[2]]
    ELSE [parentFolderName |-> "Beals", fileCount |-> "", timestamp |-> fallback]

VendorNaming(name, fallback) ==
    NamingOf(SplitUnderscore(ReplaceFirst(name, ".xlsx", "")), fallback)

\* line 605
MergedFileName(naming) ==
    IF naming.fileCount # ""
    THEN naming.parentFolderName \o "_" \o naming.fileCount \o "_" \o naming.timestamp \o ".xlsx"
    ELSE naming.parentFolderName \o "_" \o naming.timestamp \o ".xlsx"

\* line 691
UploadAction(isMerged) ==
    IF isMerged THEN "upload-merged-customer-vendor-data" ELSE "upload-processed-customer-data"

\* lines 688-697: the request of an upload as doPost gets it
UploadRequest(isMerged) ==
    Request("POST", TRUE, TRUE, configApiKey, Undefined, UploadAction(isMerged))

\* the replies that doPost (GoogleAppsScript_Template.example.gs 89-109)
\* can give to the request e
doPostReplies(e) ==
    IF ~verifyAuthentication(e).isNull THEN { verifyAuthentication(e) }
    ELSE IF PostHandler(OrElse(e.action, "")) = "none"
    THEN { error("Unknown POST action: " \o OrElse(e.action, "")) }
    ELSE HandlerReplies(PostHandler(OrElse(e.action, "")))

\* the workflow that the next event starts, 0 when no more are started
NextWorkflow == LeastOr({ w \in 1..MaxWorkflows : wf[w].kind = "none" }, 0)

\* uploadToGoogleDrive has been called for workflow w and has not settled
InFlight(w) == wf[w].xhr \in { "encoding", "sent", "answered" }

\* uploadToGoogleDrive is called with a blob (line 655): it stops at the
\* await of blobToBase64
Uploading(w, at, blob, isMerged) ==
    [wf[w] EXCEPT !.at = at, !.blob = blob, !.isMerged = isMerged, !.xhr = "encoding",
                  !.reply = Null, !.uploadSuccess = "none"]

AppInit ==
    /\ ParserIdle
    /\ PriceIdle
    /\ BatchIdle
    /\ ScriptIdle
    /\ configApiKey \in { AUTHORIZED_API_KEY, "wrong-key" }
    /\ disabled = AllEnabled
    /\ processedBlob = Null
    /\ processedFileName = "merged-output.xlsx"
    /\ currentTimestamp = ""
    /\ now = 0
    /\ wf = [w \in 1..MaxWorkflows |-> NoWorkflow]
    /\ statusEl = showStatus("", "")
    /\ resultPanel = FALSE
    /\ driveFiles = {}

notApp == << parserVars, priceVars, batchVars, scriptVars >>

\* lines 86-91, 110-115 and 245-285: the customer or the combined button is
\* clicked, a folder with PDF files is chosen, and the change handler runs
\* up to the await of the conversion
fileInputChange ==
    /\ NextWorkflow # 0
    /\ \E isCombined \in BOOLEAN :
           /\ ~disabled[IF isCombined THEN "combinedBtn" ELSE "customerBtn"]
           /\ wf' = [wf EXCEPT ![NextWorkflow] =
                        [NoWorkflow EXCEPT !.kind = IF isCombined THEN "combined" ELSE "customer",
                                           !.at = "converting"]]
    /\ statusEl' = showStatus("Processing 2 PDF file(s)... Please wait.", "loading")
    /\ resultPanel' = FALSE
    /\ disabled' = AllDisabled
    /\ UNCHANGED << configApiKey, processedBlob, processedFileName, currentTimestamp, now,
                    driveFiles >>
    /\ UNCHANGED notApp

\* lines 124-133: the vendor button is clicked
vendorBtnClick ==
    /\ NextWorkflow # 0
    /\ ~disabled.vendorBtn
    /\ wf' = [wf EXCEPT ![NextWorkflow] =
                 [NoWorkflow EXCEPT !.kind = "vendor", !.at = "fetchCustomer"]]
    /\ statusEl' = showStatus("Fetching customer data from Google Drive...", "loading")
    /\ resultPanel' = FALSE
    /\ disabled' = AllDisabled
    /\ UNCHANGED << configApiKey, processedBlob, processedFileName, currentTimestamp, now,
                    driveFiles >>
    /\ UNCHANGED notApp

\* lines 288-298 and 390-407: the conversion of the customer-only workflow
\* resolves; setupOutputButton is called and not awaited, it stops at the
\* await of its upload (lines 416-428), and the finally block runs
ConvertedCustomer(w) ==
    /\ wf[w].kind = "customer"
    /\ wf[w].at = "converting"
    /\ now' \in Later
    /\ currentTimestamp' = generateTimestamp(now')
    /\ processedBlob' = Blob(w, FALSE)
    /\ processedFileName' = CustomerDataFileName(currentTimestamp')
    /\ resultPanel' = FALSE
    /\ statusEl' = showStatus("Uploading to Google Drive...", "loading")
    /\ wf' = [wf EXCEPT ![w] = Uploading(w, "upload", Blob(w, FALSE), FALSE)]
    /\ disabled' = AllEnabled
    /\ UNCHANGED << configApiKey, driveFiles >>
    /\ UNCHANGED notApp

\* lines 288-312: the conversion of the combined workflow resolves and the
\* upload of the customer data is awaited
ConvertedCombined(w) ==
    /\ wf[w].kind = "combined"
    /\ wf[w].at = "converting"
    /\ now' \in Later
    /\ currentTimestamp' = generateTimestamp(now')
    /\ processedBlob' = Blob(w, FALSE)
    /\ processedFileName' = CustomerDataFileName(currentTimestamp')
    /\ resultPanel' = FALSE
    /\ statusEl' = showStatus("Processed 2 PDF file(s). Uploading customer data...", "loading")
    /\ wf' = [wf EXCEPT ![w] = Uploading(w, "uploadCustomer", Blob(w, FALSE), FALSE)]
    /\ UNCHANGED << configApiKey, disabled, driveFiles >>
    /\ UNCHANGED notApp

\* a handler ends: its finally block enables the buttons (lines 158-162 and
\* 401-407)
Ended(w, message) ==
    /\ wf' = [wf EXCEPT ![w].at = "done"]
    /\ statusEl' = showStatus(message, "error")
    /\ disabled' = AllEnabled

\* lines 398-407: the conversion raises
ConvertRejects(w) ==
    /\ wf[w].at = "converting"
    /\ Ended(w, "Error: No data extracted from any PDF files")
    /\ UNCHANGED << configApiKey, processedBlob, processedFileName, currentTimestamp, now,
                    resultPanel, driveFiles >>
    /\ UNCHANGED notApp

\* lines 133-137 and 469-502: the download of the customer data settles
FetchedCustomer(w) ==
    /\ wf[w].at = "fetchCustomer"
    /\ \/ Ended(w, "Error: Could not fetch customer data from Google Drive")
       \/ \E name \in CustomerFileNames :
              /\ wf' = [wf EXCEPT ![w].at = "fetchVendor", ![w].customerFile = name]
              /\ statusEl' = showStatus("Fetching vendor data from Google Drive...", "loading")
              /\ UNCHANGED disabled
    /\ UNCHANGED << configApiKey, processedBlob, processedFileName, currentTimestamp, now,
                    resultPanel, driveFiles >>
    /\ UNCHANGED notApp

\* lines 141-153, 323-331 and 507-540: the download of the vendor data
\* settles; performVendorMerge disables two buttons again (lines 553-554)
FetchedVendor(w) ==
    /\ wf[w].at = "fetchVendor"
    /\ \/ Ended(w, IF wf[w].kind = "vendor"
                   THEN "Error: Could not fetch vendor data from Google Drive"
                   ELSE "Error: Could not fetch vendor data from Google Drive. Customer data uploaded, but merge skipped.")
       \/ /\ wf' = [wf EXCEPT ![w].at = "merging"]
          /\ statusEl' = showStatus("Merging customer and vendor data...", "loading")
          /\ disabled' = [disabled EXCEPT !.customerBtn = IF wf[w].kind = "vendor" THEN TRUE ELSE @,
                                          !.vendorBtn = IF wf[w].kind = "vendor" THEN TRUE ELSE @]
    /\ UNCHANGED << configApiKey, processedBlob, processedFileName, currentTimestamp, now,
                    resultPanel, driveFiles >>
    /\ UNCHANGED notApp

\* lines 334-357: the merge of the combined workflow resolves and the upload
\* of the merged data is awaited
MergedCombined(w) ==
    /\ wf[w].kind = "combined"
    /\ wf[w].at = "merging"
    /\ processedBlob' = Blob(w, TRUE)
    /\ processedFileName' = CustomerDataFileName(currentTimestamp)
    /\ statusEl' = showStatus("Processed and merged data. Uploading merged file...", "loading")
    /\ wf' = [wf EXCEPT ![w] = Uploading(w, "uploadMerged", Blob(w, TRUE), TRUE)]
    /\ UNCHANGED << configApiKey, disabled, currentTimestamp, now, resultPanel, driveFiles >>
    /\ UNCHANGED notApp

\* lines 557-609: the merge of the vendor workflow resolves and the upload of
\* the merged data is awaited
MergedVendor(w) ==
    /\ wf[w].kind = "vendor"
    /\ wf[w].at = "merging"
    /\ now' \in Later
    /\ processedBlob' = Blob(w, TRUE)
    /\ currentTimestamp' = VendorNaming(wf[w].customerFile, generateTimestamp(now')).timestamp
    /\ processedFileName' =
           MergedFileName(VendorNaming(wf[w].customerFile, generateTimestamp(now')))
    /\ statusEl' = showStatus("Uploading merged data to Google Drive...", "loading")
    /\ wf' = [wf EXCEPT ![w] = Uploading(w, "uploadMerged", Blob(w, TRUE), TRUE)]
    /\ UNCHANGED << configApiKey, disabled, resultPanel, driveFiles >>
    /\ UNCHANGED notApp

\* lines 384-389 and 637-643: the merge raises
MergeRejects(w) ==
    /\ wf[w].at = "merging"
    /\ Ended(w, IF wf[w].kind = "vendor" THEN "Error: merge failed"
                ELSE "Error during vendor merge: merge failed. Customer data was uploaded successfully.")
    /\ UNCHANGED << configApiKey, processedBlob, processedFileName, currentTimestamp, now,
                    resultPanel, driveFiles >>
    /\ UNCHANGED notApp

\* the message shown when uploadToGoogleDrive has settled with outcome:
\* "true", "false", or "rejected" when its promise was rejected
UploadMessage(kind, at, outcome) ==
    IF kind = "customer"
    THEN IF outcome = "true"
         THEN showStatus("Uploaded to Google Drive. Optionally download a local copy.", "success")
         ELSE IF outcome = "false"
         THEN showStatus("Error: Could not upload to Google Drive. Please try again.", "error")
         ELSE showStatus("Error: Upload failed", "error")
    ELSE IF kind = "vendor"
    THEN IF outcome = "true"
         THEN showStatus("Uploaded merged data to Google Drive. Optionally download a local copy.",
                         "success")
         ELSE IF outcome = "false"
         THEN showStatus("Error: Could not upload merged data to Google Drive.", "error")
         ELSE showStatus("Error: Upload failed", "error")
    ELSE IF at = "uploadCustomer"
    THEN IF outcome = "true"
         THEN showStatus("Customer data uploaded. Fetching vendor data...", "loading")
         ELSE IF outcome = "false"
         THEN showStatus("Error: Could not upload customer data to Google Drive. Skipping vendor merge.",
                         "error")
         ELSE showStatus("Error: Upload failed", "error")
    ELSE IF outcome = "true"
         THEN showStatus("Both customer and vendor data uploaded successfully to Google Drive.",
                         "success")
         ELSE IF outcome = "false"
         THEN showStatus("Error: Could not upload merged data, but customer data was uploaded successfully.",
                         "error")
         ELSE showStatus("Error during vendor merge: Upload failed. Customer data was uploaded successfully.",
                         "error")

\* the code behind an await of uploadToGoogleDrive that has settled with
\* outcome: lines 430-463 of setupOutputButton, 314-320 and 359-389 of the
\* combined workflow with its finally block, 611-643 of performVendorMerge
\* with the finally block of lines 158-162
Settled(w, outcome) ==
    /\ statusEl' = UploadMessage(wf[w].kind, wf[w].at, outcome)
    /\ resultPanel' = IF outcome = "true" /\ wf[w].at # "uploadCustomer" THEN TRUE ELSE resultPanel
    /\ wf' = [wf EXCEPT ![w].uploadSuccess = outcome,
                        ![w].xhr = "settled",
                        ![w].at = IF outcome = "true" /\ wf[w].at = "uploadCustomer"
                                  THEN "fetchVendor" ELSE "done"]
    /\ disabled' = IF wf[w].kind = "customer" \/ (outcome = "true" /\ wf[w].at = "uploadCustomer")
                   THEN disabled
                   ELSE AllEnabled

\* lines 658-697: blobToBase64 resolves and the request is sent
XhrSend(w) ==
    /\ wf[w].xhr = "encoding"
    /\ wf' = [wf EXCEPT ![w].xhr = "sent"]
    /\ UNCHANGED << configApiKey, disabled, processedBlob, processedFileName, currentTimestamp,
                    now, statusEl, resultPanel, driveFiles >>
    /\ UNCHANGED notApp

\* lines 700-703: blobToBase64 rejects and uploadToGoogleDrive returns false
EncodeRejects(w) ==
    /\ wf[w].xhr = "encoding"
    /\ Settled(w, "false")
    /\ UNCHANGED << configApiKey, processedBlob, processedFileName, currentTimestamp, now,
                    driveFiles >>
    /\ UNCHANGED notApp

\* doPost of the web app replies to the request of the upload; the file is
\* in Drive when the handler of the action has replied with success
doPostAnswers(w) ==
    /\ wf[w].xhr = "sent"
    /\ \E r \in doPostReplies(UploadRequest(wf[w].isMerged)) :
           /\ wf' = [wf EXCEPT ![w].xhr = "answered", ![w].reply = r]
           /\ driveFiles' = IF r.success THEN driveFiles \cup { wf[w].blob } ELSE driveFiles
    /\ UNCHANGED << configApiKey, disabled, processedBlob, processedFileName, currentTimestamp,
                    now, statusEl, resultPanel >>
    /\ UNCHANGED notApp

\* lines 673-677: the reply of doPost is loaded, its status is 200, and the
\* promise resolves true
XhrOnload(w) ==
    /\ wf[w].xhr = "answered"
    /\ Settled(w, "true")
    /\ UNCHANGED << configApiKey, processedBlob, processedFileName, currentTimestamp, now,
                    driveFiles >>
    /\ UNCHANGED notApp

\* lines 677-686: the request does not reach doPost, it is loaded with a
\* status outside 200..299 or fails, and the promise is rejected
XhrFails(w) ==
    /\ wf[w].xhr = "sent"
    /\ Settled(w, "rejected")
    /\ UNCHANGED << configApiKey, processedBlob, processedFileName, currentTimestamp, now,
                    driveFiles >>
    /\ UNCHANGED notApp

\* lines 456-458 and 724-772: the download button is clicked and the file is
\* saved, or saving it raises
saveLocally ==
    /\ resultPanel
    /\ ~processedBlob.isNull
    /\ \/ /\ statusEl' = showStatus("Download started as " \o processedFileName, "success")
          /\ resultPanel' = FALSE
       \/ /\ statusEl' = showStatus("Error saving file: write failed", "error")
          /\ UNCHANGED resultPanel
    /\ UNCHANGED << configApiKey, disabled, processedBlob, processedFileName, currentTimestamp,
                    now, wf, driveFiles >>
    /\ UNCHANGED notApp

AppNext ==
    \/ fileInputChange
    \/ vendorBtnClick
    \/ saveLocally
    \/ \E w \in 1..MaxWorkflows :
           \/ ConvertedCustomer(w)
           \/ ConvertedCombined(w)
           \/ ConvertRejects(w)
           \/ FetchedCustomer(w)
           \/ FetchedVendor(w)
           \/ MergedCombined(w)
           \/ MergedVendor(w)
           \/ MergeRejects(w)
           \/ XhrSend(w)
           \/ EncodeRejects(w)
           \/ doPostAnswers(w)
           \/ XhrOnload(w)
           \/ XhrFails(w)

AppSpec == AppInit /\ [][AppNext]_vars

AppTypeOK ==
    /\ disabled \in [{ "customerBtn", "vendorBtn", "combinedBtn" } -> BOOLEAN]
    /\ now \in 0..MaxSeconds
    /\ \A w \in 1..MaxWorkflows :
           /\ wf[w].kind \in { "none", "customer", "combined", "vendor" }
           /\ wf[w].xhr \in { "unsent", "encoding", "sent", "answered", "settled" }
           /\ wf[w].uploadSuccess \in { "none", "true", "false", "rejected" }

(***************************************************************************)
(* Properties of the browser app.                                          *)
(***************************************************************************)

\* C27: while a workflow runs, up to the moment its upload has completed,
\* the three workflow buttons are disabled: no upload is in flight with a
\* button enabled.
C27_DisabledWhileUploading ==
    \A w \in 1..MaxWorkflows : InFlight(w) => disabled = AllDisabled

\* C28: an upload is taken as successful only when the reply of the web app
\* says success: true, so that the file is in Drive.
C28_SuccessOnlyIfStored ==
    \A w \in 1..MaxWorkflows :
        wf[w].uploadSuccess = "true" => wf[w].reply.success /\ wf[w].blob \in driveFiles

====
